---- MODULE Spec2Model ----
(***************************************************************************)
(* A model of Shy PNM (PnmLoad and the functions it calls) and of Shy Str   *)
(* (StrCreate: SHYSTR_StrSize and SHYSTR_vStrCreate).                      *)
(*                                                                         *)
(* A file is a sequence of bytes 0..255.  The FILE object is its read      *)
(* position and its end-of-file indicator.  An int is a TLA+ integer kept  *)
(* in -2^31 .. 2^31-1; a uint32_t is its four bytes, most significant      *)
(* first.  Signed overflow is undefined in C: a build either wraps (two's  *)
(* complement) or traps, and every step draws that outcome afresh.         *)
(***************************************************************************)
EXTENDS Integers, Sequences, FiniteSets, TLC

VARIABLES
    file,      \* the bytes of the file named by filename
    canOpen,   \* whether fopen(filename, "rb") succeeds
    tok,       \* the header tokens and samples the file was written from
    pc,        \* where PnmLoad is
    variant,   \* the magic digit 1..7 once dispatched, 0 before
    pos,       \* stream position: bytes consumed so far
    eof,       \* the stream's end-of-file indicator
    opened,    \* number of successful fopen calls
    closed,    \* number of fclose calls
    w, h,      \* the caller's *w and *h
    maxval,    \* the decoder's local maxval
    depth,     \* PamLoad's local depth
    allocd,    \* number of successful malloc calls
    freed,     \* number of free calls
    pixSize,   \* elements of the allocated buffer
    pix,       \* the elements written so far, pix[0] first
    byte,      \* PbmRawLoad's local byte
    msgs,      \* the diagnostics written to stderr, in order
    pixPtr,    \* PnmLoad's local pix: "NULL" | "buf"
    ret,       \* PnmLoad's return value: "none" | "NULL" | "buf"
    strCreate  \* a call of StrCreate: format, arguments, size, buffer, output

vars == <<file, canOpen, tok, pc, variant, pos, eof, opened, closed, w, h,
          maxval, depth, allocd, freed, pixSize, pix, byte, msgs, pixPtr, ret,
          strCreate>>

-----------------------------------------------------------------------------
(* Characters *)

ASCII == [tab |-> 9, nl |-> 10, vt |-> 11, ff |-> 12, cr |-> 13, sp |-> 32,
          hash |-> 35, dollar |-> 36, pct |-> 37, quote |-> 39, star |-> 42,
          plus |-> 43, minus |-> 45, dot |-> 46,
          zero |-> 48, one |-> 49, three |-> 51, seven |-> 55, nine |-> 57,
          A |-> 65, B |-> 66, C |-> 67, E |-> 69, F |-> 70, G |-> 71, I |-> 73,
          L |-> 76, P |-> 80, S |-> 83, X |-> 88, Z |-> 90,
          a |-> 97, b |-> 98, c |-> 99, d |-> 100, e |-> 101, f |-> 102, g |-> 103,
          h |-> 104, i |-> 105, j |-> 106, l |-> 108, m |-> 109, n |-> 110,
          o |-> 111, p |-> 112, q |-> 113, s |-> 115, t |-> 116, u |-> 117,
          x |-> 120, y |-> 121, z |-> 122]

EOF == -1
UINT8_MAX == 255
UINT16_MAX == 65535

IsSpace(ch) == ch \in {ASCII.sp, ASCII.tab, ASCII.nl, ASCII.vt, ASCII.ff, ASCII.cr}
IsDigit(ch) == ch >= ASCII.zero /\ ch <= ASCII.nine

KW == [DEPTH  |-> <<68, 69, 80, 84, 72>>,
       MAXVAL |-> <<77, 65, 88, 86, 65, 76>>,
       HEIGHT |-> <<72, 69, 73, 71, 72, 84>>,
       WIDTH  |-> <<87, 73, 68, 84, 72>>,
       ENDHDR |-> <<69, 78, 68, 72, 68, 82>>]

-----------------------------------------------------------------------------
(* int arithmetic, 32 bits *)

\* the two 16-bit halves of an int's bit pattern
Halves(n) ==
    IF n >= 0
    THEN [hi |-> n \div 65536, lo |-> n % 65536]
    ELSE LET m == (n + 2147483647) + 1
         IN  [hi |-> (m \div 65536) + 32768, lo |-> m % 65536]

\* the int whose bit pattern has these halves
FromHalves(hi, lo) ==
    IF hi < 32768 THEN hi * 65536 + lo ELSE (hi - 65536) * 65536 + lo

\* n * 10 + d leaves the range of int
MulAdd10Overflows(n, d) ==
    \/ n > 214748364
    \/ n = 214748364 /\ d > 7
    \/ n < -214748364

\* n * 10 + d as a wrapping build computes it
MulAdd10Wrap(n, d) ==
    LET a  == Halves(n)
        lo == a.lo * 10 + d
        hi == (a.hi * 10 + (lo \div 65536)) % 65536
    IN  FromHalves(hi, lo % 65536)

\* a * b leaves the range of int (a, b >= 1)
MulOverflows(a, b) == a > 2147483647 \div b

\* a * b as a wrapping build computes it (a, b >= 0)
MulWrap(a, b) ==
    LET x    == Halves(a)
        y    == Halves(b)
        t0   == x.lo * (y.lo % 256)
        t1   == x.lo * (y.lo \div 256)
        low  == t0 + (t1 % 256) * 256
        hi   == ((low \div 65536) + (t1 \div 256)
                 + ((x.hi * y.lo) % 65536) + ((x.lo * y.hi) % 65536)) % 65536
    IN  FromHalves(hi, low % 65536)

-----------------------------------------------------------------------------
(* uint32_t arithmetic: a value is its four bytes, most significant first *)

U32Max == <<255, 255, 255, 255>>

\* conversion of an int to uint32_t
U32(n) ==
    LET a == Halves(n)
    IN  <<a.hi \div 256, a.hi % 256, a.lo \div 256, a.lo % 256>>

RECURSIVE ByteOr(_, _, _)
ByteOr(a, b, bits) ==
    IF bits = 0 THEN 0
    ELSE (IF a % 2 = 1 \/ b % 2 = 1 THEN 1 ELSE 0)
         + 2 * ByteOr(a \div 2, b \div 2, bits - 1)

U32Or(a, b) == [i \in 1..4 |-> ByteOr(a[i], b[i], 8)]

\* u << (8 * k)
U32Shl8(u, k) == [i \in 1..4 |-> IF i + k <= 4 THEN u[i + k] ELSE 0]

\* a > b
U32Gt(a, b) ==
    \E i \in 1..4 : a[i] > b[i] /\ \A j \in 1..(i - 1) : a[j] = b[j]

\* u * k modulo 2^32, k in 0..255
U32Mul(u, k) ==
    LET p4 == u[4] * k
        p3 == u[3] * k + (p4 \div 256)
        p2 == u[2] * k + (p3 \div 256)
        p1 == u[1] * k + (p2 \div 256)
    IN  <<p1 % 256, p2 % 256, p3 % 256, p4 % 256>>

\* u / m, m in 1..65535
U32Div(u, m) ==
    LET r1 == u[1]
        r2 == (r1 % m) * 256 + u[2]
        r3 == (r2 % m) * 256 + u[3]
        r4 == (r3 % m) * 256 + u[4]
    IN  <<(r1 \div m) % 256, (r2 \div m) % 256, (r3 \div m) % 256, (r4 \div m) % 256>>

-----------------------------------------------------------------------------
(* stdio on the stream s = [pos, eof] *)

Fgetc(s) ==
    IF s.pos < Len(file)
    THEN [c |-> file[s.pos + 1], s |-> [pos |-> s.pos + 1, eof |-> s.eof]]
    ELSE [c |-> EOF, s |-> [pos |-> s.pos, eof |-> TRUE]]

Feof(s) == s.eof

Fseek(s, p) == [pos |-> p, eof |-> FALSE]

Ftell(s) == s.pos

\* while (!feof(f) && fgetc(f) != '\n') ;
RECURSIVE SkipComment(_)
SkipComment(s) ==
    IF Feof(s) THEN s
    ELSE LET r == Fgetc(s)
         IN  IF r.c = ASCII.nl THEN r.s ELSE SkipComment(r.s)

\* while (fgetc(f) != '\n') ;   never exits once the stream has ended
RECURSIVE SkipCommentNoEof(_)
SkipCommentNoEof(s) ==
    LET r == Fgetc(s)
    IN  IF r.c = EOF THEN [hang |-> TRUE, s |-> r.s]
        ELSE IF r.c = ASCII.nl THEN [hang |-> FALSE, s |-> r.s]
        ELSE SkipCommentNoEof(r.s)

-----------------------------------------------------------------------------
(* Tokenizer *)

RECURSIVE FindTokenLoop(_, _)
FindTokenLoop(ch, s) ==
    IF ch = EOF THEN s
    ELSE IF ch = ASCII.hash
         THEN LET r == Fgetc(SkipComment(s)) IN FindTokenLoop(r.c, r.s)
    ELSE IF ~IsSpace(ch) THEN Fseek(s, s.pos - 1)
    ELSE LET r == Fgetc(s) IN FindTokenLoop(r.c, r.s)

FindToken(s) == LET r == Fgetc(s) IN FindTokenLoop(r.c, r.s)

TokenTerminator(s) ==
    LET r == Fgetc(s)
    IN  IF r.c = ASCII.hash
        THEN [b |-> TRUE, s |-> SkipComment(r.s)]
        ELSE [b |-> (r.c = EOF \/ IsSpace(r.c)), s |-> r.s]

RECURSIVE SkipToken(_)
SkipToken(s) ==
    LET r == TokenTerminator(s) IN IF r.b THEN r.s ELSE SkipToken(r.s)

RECURSIVE TokenMatchLoop(_, _, _, _)
TokenMatchLoop(s, str, i, bookmark) ==
    IF i > Len(str)
    THEN LET t == TokenTerminator(s)
         IN  IF t.b THEN [b |-> TRUE, s |-> t.s]
             ELSE [b |-> FALSE, s |-> Fseek(t.s, bookmark)]
    ELSE IF Feof(s) THEN [b |-> FALSE, s |-> Fseek(s, bookmark)]
    ELSE LET r == Fgetc(s)
         IN  IF r.c # str[i] THEN [b |-> FALSE, s |-> Fseek(r.s, bookmark)]
             ELSE TokenMatchLoop(r.s, str, i + 1, bookmark)

TokenMatch(s, str) == TokenMatchLoop(s, str, 1, Ftell(s))

\* the for loop of GrabInt, entered with the character just read
RECURSIVE GrabIntLoop(_, _, _, _)
GrabIntLoop(ch, s, n, ub) ==
    IF ch = EOF \/ IsSpace(ch) THEN [st |-> "ok", n |-> n, s |-> s, msgs |-> <<>>]
    ELSE IF ch = ASCII.hash
         THEN LET k == SkipCommentNoEof(s)
              IN  [st |-> IF k.hang THEN "hang" ELSE "ok", n |-> n, s |-> k.s,
                   msgs |-> <<>>]
    ELSE IF IsDigit(ch)
         THEN IF MulAdd10Overflows(n, ch - ASCII.zero) /\ ub = "trap"
              THEN [st |-> "trap", n |-> n, s |-> s, msgs |-> <<>>]
              ELSE LET r == Fgetc(s)
                   IN  GrabIntLoop(r.c, r.s, MulAdd10Wrap(n, ch - ASCII.zero), ub)
    ELSE [st |-> "ok", n |-> -1, s |-> s, msgs |-> <<"bad_int">>]

\* GrabInt after FindToken
GrabIntToken(s1, ub) ==
    IF Feof(s1)
    THEN [st |-> "ok", n |-> -1, s |-> s1, msgs |-> <<"eof_int">>]
    ELSE GrabIntLoop(Fgetc(s1).c, Fgetc(s1).s, 0, ub)

GrabInt(s, ub) == GrabIntToken(FindToken(s), ub)

-----------------------------------------------------------------------------
(* Header readers.  Each yields                                            *)
(*   st    "ok" (the function returned), "hang" or "trap"                  *)
(*   pix   TRUE iff it returned a buffer, of size elements                 *)
(*   s, w, h, maxval, depth, msgs as the function leaves them              *)

Hdr(st, s, wv, hv, mv, dv, out, pixOk, size) ==
    [st |-> st, s |-> s, w |-> wv, h |-> hv, maxval |-> mv, depth |-> dv,
     msgs |-> out, pix |-> pixOk, size |-> size]

\* malloc((*w) * (*h) * sizeof(uint32_t)); size_t has 64 bits, so a negative
\* int product converts to a size no allocator grants.  mem: whether the
\* allocator grants a request it could grant.
Malloc(wv, hv, ub, mem) ==
    IF MulOverflows(wv, hv) /\ ub = "trap"
    THEN [st |-> "trap", ok |-> FALSE, size |-> 0]
    ELSE LET p == MulWrap(wv, hv)
         IN  IF p < 0 THEN [st |-> "ok", ok |-> FALSE, size |-> 0]
             ELSE [st |-> "ok", ok |-> mem, size |-> IF mem THEN p ELSE 0]

\* the three header readers from malloc on, m being malloc's outcome
AllocResult(m, s, wv, hv, mv, dv, out) ==
    IF m.st # "ok" THEN Hdr(m.st, s, wv, hv, mv, dv, out, FALSE, 0)
    ELSE IF ~m.ok
         THEN Hdr("ok", s, -1, -1, mv, dv, out \o <<"nomem">>, FALSE, 0)
    ELSE Hdr("ok", s, wv, hv, mv, dv, out, TRUE, m.size)

AllocTail(s, wv, hv, mv, dv, out, ub, mem) ==
    AllocResult(Malloc(wv, hv, ub, mem), s, wv, hv, mv, dv, out)

\* a header reader after its GrabInt for the width returned gw
HeaderWidth(gw, w0, h0, m0, d0) ==
    IF gw.st # "ok" THEN Hdr(gw.st, gw.s, w0, h0, m0, d0, gw.msgs, FALSE, 0)
    ELSE Hdr("ok", gw.s, -1, -1, m0, d0,
             gw.msgs \o (IF gw.n = 0 THEN <<"width">> ELSE <<>>), FALSE, 0)

\* a header reader after its GrabInt for the height returned gh
HeaderHeight(gw, gh, h0, m0, d0) ==
    IF gh.st # "ok"
    THEN Hdr(gh.st, gh.s, gw.n, h0, m0, d0, gw.msgs \o gh.msgs, FALSE, 0)
    ELSE Hdr("ok", gh.s, -1, -1, m0, d0,
             gw.msgs \o gh.msgs \o (IF gh.n = 0 THEN <<"height">> ELSE <<>>),
             FALSE, 0)

ReadPbmHeaderH(gw, gh, h0, m0, d0, ub, mem) ==
    IF gh.st # "ok" \/ gh.n < 1 THEN HeaderHeight(gw, gh, h0, m0, d0)
    ELSE AllocTail(gh.s, gw.n, gh.n, m0, d0, gw.msgs \o gh.msgs, ub, mem)

ReadPbmHeaderW(gw, w0, h0, m0, d0, ub, mem) ==
    IF gw.st # "ok" \/ gw.n < 1 THEN HeaderWidth(gw, w0, h0, m0, d0)
    ELSE ReadPbmHeaderH(gw, GrabInt(gw.s, ub), h0, m0, d0, ub, mem)

ReadPbmHeader(s, w0, h0, m0, d0, ub, mem) ==
    ReadPbmHeaderW(GrabInt(s, ub), w0, h0, m0, d0, ub, mem)

ReadHeaderM(gw, gh, gm, m0, d0, ub, mem) ==
    IF gm.st # "ok"
    THEN Hdr(gm.st, gm.s, gw.n, gh.n, m0, d0, gw.msgs \o gh.msgs \o gm.msgs,
             FALSE, 0)
    ELSE IF gm.n < 1 \/ gm.n > UINT16_MAX
    THEN Hdr("ok", gm.s, -1, -1, gm.n, d0,
             gw.msgs \o gh.msgs \o gm.msgs
               \o (IF gm.n > 0 THEN <<"maxval">> ELSE <<>>),
             FALSE, 0)
    ELSE AllocTail(gm.s, gw.n, gh.n, gm.n, d0, gw.msgs \o gh.msgs \o gm.msgs,
                   ub, mem)

ReadHeaderH(gw, gh, h0, m0, d0, ub, mem) ==
    IF gh.st # "ok" \/ gh.n < 1 THEN HeaderHeight(gw, gh, h0, m0, d0)
    ELSE ReadHeaderM(gw, gh, GrabInt(gh.s, ub), m0, d0, ub, mem)

ReadHeaderW(gw, w0, h0, m0, d0, ub, mem) ==
    IF gw.st # "ok" \/ gw.n < 1 THEN HeaderWidth(gw, w0, h0, m0, d0)
    ELSE ReadHeaderH(gw, GrabInt(gw.s, ub), h0, m0, d0, ub, mem)

ReadHeader(s, w0, h0, m0, d0, ub, mem) ==
    ReadHeaderW(GrabInt(s, ub), w0, h0, m0, d0, ub, mem)

\* One pass of ReadPamHeader's for loop.  ret: the loop returned NULL;
\* done: ENDHDR was matched.
PamField(st, s, wv, hv, mv, dv, out, retNull, done) ==
    [st |-> st, s |-> s, w |-> wv, h |-> hv, maxval |-> mv, depth |-> dv,
     msgs |-> out, ret |-> retNull, done |-> done]

\* a field's GrabInt: its value goes to *depth ("D"), *maxval ("M"), *h ("H")
\* or *w ("W")
PamGrab(k, g, w0, h0, m0, d0) ==
    IF g.st # "ok"
    THEN PamField(g.st, g.s, w0, h0, m0, d0, g.msgs, FALSE, FALSE)
    ELSE IF k = "D"
    THEN IF g.n < 0
         THEN PamField("ok", g.s, -1, -1, m0, g.n, g.msgs, TRUE, FALSE)
         ELSE PamField("ok", g.s, w0, h0, m0, g.n, g.msgs, FALSE, FALSE)
    ELSE IF k = "M"
    THEN IF g.n < 0
         THEN PamField("ok", g.s, -1, -1, g.n, d0, g.msgs, TRUE, FALSE)
         ELSE PamField("ok", g.s, w0, h0, g.n, d0, g.msgs, FALSE, FALSE)
    ELSE IF k = "H"
    THEN IF g.n < 0
         THEN PamField("ok", g.s, -1, g.n, m0, d0, g.msgs, TRUE, FALSE)
         ELSE PamField("ok", g.s, w0, g.n, m0, d0, g.msgs, FALSE, FALSE)
    ELSE IF g.n < 0
         THEN PamField("ok", g.s, g.n, -1, m0, d0, g.msgs, TRUE, FALSE)
         ELSE PamField("ok", g.s, g.n, h0, m0, d0, g.msgs, FALSE, FALSE)

\* PamEndhdr with an unknown keyword skipped alone, its value left in place
PamEndhdrOneToken(t, w0, h0, m0, d0) ==
    IF t.b THEN PamField("ok", t.s, w0, h0, m0, d0, <<>>, FALSE, TRUE)
    ELSE PamField("ok", SkipToken(t.s), w0, h0, m0, d0, <<>>, FALSE, FALSE)

\* the else-if chain, t being the result of the TokenMatch just tried
PamEndhdr(t, w0, h0, m0, d0) ==
    IF t.b THEN PamField("ok", t.s, w0, h0, m0, d0, <<>>, FALSE, TRUE)
    ELSE PamField("ok", SkipToken(FindToken(SkipToken(t.s))),
                  w0, h0, m0, d0, <<>>, FALSE, FALSE)

PamWidth(t, w0, h0, m0, d0, ub) ==
    IF t.b THEN PamGrab("W", GrabInt(t.s, ub), w0, h0, m0, d0)
    ELSE PamEndhdr(TokenMatch(t.s, KW.ENDHDR), w0, h0, m0, d0)

PamHeight(t, w0, h0, m0, d0, ub) ==
    IF t.b THEN PamGrab("H", GrabInt(t.s, ub), w0, h0, m0, d0)
    ELSE PamWidth(TokenMatch(t.s, KW.WIDTH), w0, h0, m0, d0, ub)

PamMaxval(t, w0, h0, m0, d0, ub) ==
    IF t.b THEN PamGrab("M", GrabInt(t.s, ub), w0, h0, m0, d0)
    ELSE PamHeight(TokenMatch(t.s, KW.HEIGHT), w0, h0, m0, d0, ub)

PamDepth(t, w0, h0, m0, d0, ub) ==
    IF t.b THEN PamGrab("D", GrabInt(t.s, ub), w0, h0, m0, d0)
    ELSE PamMaxval(TokenMatch(t.s, KW.MAXVAL), w0, h0, m0, d0, ub)

ReadPamHeaderLoop(s, w0, h0, m0, d0, ub) ==
    PamDepth(TokenMatch(FindToken(s), KW.DEPTH), w0, h0, m0, d0, ub)

\* ReadPamHeader after its loop: the range checks and malloc
ReadPamHeaderCheck(s, w0, h0, m0, d0, ub, mem) ==
    IF d0 < 1 \/ d0 > 4
    THEN Hdr("ok", s, -1, -1, m0, d0, <<"depth">>, FALSE, 0)
    ELSE IF m0 < 1 \/ m0 > UINT16_MAX
    THEN Hdr("ok", s, -1, -1, m0, d0, <<"maxval">>, FALSE, 0)
    ELSE IF w0 < 1
    THEN Hdr("ok", s, w0, -1, m0, d0, <<"width">>, FALSE, 0)
    ELSE IF h0 < 1
    THEN Hdr("ok", s, -1, h0, m0, d0, <<"height">>, FALSE, 0)
    ELSE AllocTail(s, w0, h0, m0, d0, <<>>, ub, mem)

-----------------------------------------------------------------------------
(* Sample readers and the body of each decoder's pixel loop *)

Scale(d, mv) == U32Div(U32Mul(d, 255), mv)

Sample(st, ok, s, dest, out) ==
    [st |-> st, ok |-> ok, s |-> s, dest |-> dest, msgs |-> out]

\* GrabAsciiValue after its GrabInt returned g
GrabAsciiCheck(g, mv) ==
    IF g.st # "ok" THEN Sample(g.st, FALSE, g.s, U32(0), g.msgs)
    ELSE IF g.n < 0 THEN Sample("ok", FALSE, g.s, U32(0), g.msgs)
    ELSE IF g.n > mv THEN Sample("ok", FALSE, g.s, U32(0), g.msgs \o <<"range">>)
    ELSE Sample("ok", TRUE, g.s, Scale(U32(g.n), mv), g.msgs)

GrabAsciiValue(s, mv, ub) == GrabAsciiCheck(GrabInt(s, ub), mv)

\* GrabBinValue from the comparison with maxval on, *dest being d
GrabBinCheck(s, d, mv) ==
    IF U32Gt(d, U32(mv)) THEN Sample("ok", FALSE, s, d, <<"range">>)
    ELSE Sample("ok", TRUE, s, Scale(d, mv), <<>>)

\* GrabBinValue reading the second byte, *dest being d1
GrabBinLow(r2, d1, mv) == GrabBinCheck(r2.s, U32Or(U32Shl8(d1, 1), U32(r2.c)), mv)

\* GrabBinValue after its first fgetc returned r1
GrabBinHigh(r1, mv) ==
    IF mv > UINT8_MAX
    THEN IF Feof(r1.s) THEN Sample("ok", FALSE, r1.s, U32(r1.c), <<"eof_pix">>)
         ELSE GrabBinLow(Fgetc(r1.s), U32(r1.c), mv)
    ELSE GrabBinCheck(r1.s, U32(r1.c), mv)

GrabBinValue(s, mv) ==
    IF Feof(s) THEN Sample("ok", FALSE, s, U32(0), <<"eof_pix">>)
    ELSE GrabBinHigh(Fgetc(s), mv)

Opaque == U32(255)

\* (r << 24) | (g << 16) | (b << 8) | a
Pack(r, g, b, a) ==
    U32Or(U32Or(U32Or(U32Shl8(r, 3), U32Shl8(g, 2)), U32Shl8(b, 1)), a)

\* the outcome of one pass of a pixel loop
Pixel(st, ok, s, px, out) ==
    [st |-> st, ok |-> ok, s |-> s, px |-> px, msgs |-> out]

\* the pass failed in the sample reader that returned v
Failed(v) == Pixel(v.st, FALSE, v.s, U32(0), v.msgs)

GrayscaleAlpha(g, a) ==
    IF ~a.ok THEN Failed(a)
    ELSE Pixel("ok", TRUE, a.s, Pack(g.dest, g.dest, g.dest, a.dest), <<>>)

GrayscaleGray(g, mv, get_alpha) ==
    IF ~g.ok THEN Failed(g)
    ELSE IF get_alpha THEN GrayscaleAlpha(g, GrabBinValue(g.s, mv))
    ELSE Pixel("ok", TRUE, g.s, Pack(g.dest, g.dest, g.dest, Opaque), <<>>)

\* one pass of a loop of GrayscaleLoad
GrayscaleLoad(s, mv, get_alpha) ==
    GrayscaleGray(GrabBinValue(s, mv), mv, get_alpha)

ColorAlpha(r, g, b, a) ==
    IF ~a.ok THEN Failed(a)
    ELSE Pixel("ok", TRUE, a.s, Pack(r.dest, g.dest, b.dest, a.dest), <<>>)

ColorBlue(r, g, b, mv, get_alpha) ==
    IF ~b.ok THEN Failed(b)
    ELSE IF get_alpha THEN ColorAlpha(r, g, b, GrabBinValue(b.s, mv))
    ELSE Pixel("ok", TRUE, b.s, Pack(r.dest, g.dest, b.dest, Opaque), <<>>)

ColorGreen(r, g, mv, get_alpha) ==
    IF ~g.ok THEN Failed(g)
    ELSE ColorBlue(r, g, GrabBinValue(g.s, mv), mv, get_alpha)

ColorRed(r, mv, get_alpha) ==
    IF ~r.ok THEN Failed(r)
    ELSE ColorGreen(r, GrabBinValue(r.s, mv), mv, get_alpha)

\* one pass of a loop of ColorLoad
ColorLoad(s, mv, get_alpha) == ColorRed(GrabBinValue(s, mv), mv, get_alpha)

PgmAsciiGray(g) ==
    IF g.st # "ok" \/ ~g.ok THEN Failed(g)
    ELSE Pixel("ok", TRUE, g.s, Pack(g.dest, g.dest, g.dest, Opaque), <<>>)

\* one pass of the loop of PgmAsciiLoad
PgmAsciiLoad(s, mv, ub) == PgmAsciiGray(GrabAsciiValue(s, mv, ub))

PpmAsciiBlue(r, g, b) ==
    IF b.st # "ok" \/ ~b.ok THEN Failed(b)
    ELSE Pixel("ok", TRUE, b.s, Pack(r.dest, g.dest, b.dest, Opaque), <<>>)

PpmAsciiGreen(r, g, mv, ub) ==
    IF g.st # "ok" \/ ~g.ok THEN Failed(g)
    ELSE PpmAsciiBlue(r, g, GrabAsciiValue(g.s, mv, ub))

PpmAsciiRed(r, mv, ub) ==
    IF r.st # "ok" \/ ~r.ok THEN Failed(r)
    ELSE PpmAsciiGreen(r, GrabAsciiValue(r.s, mv, ub), mv, ub)

\* one pass of the loop of PpmAsciiLoad
PpmAsciiLoad(s, mv, ub) == PpmAsciiRed(GrabAsciiValue(s, mv, ub), mv, ub)

Black == U32(255)
White == U32Max

\* bit (7 - i % 8) of byte
BitOf(b, i) == (b \div (2 ^ (7 - (i % 8)))) % 2

\* one pass of the loop of PbmRawLoad, at index i with local byte b
PbmRawLoad(s, i, b) ==
    IF i % 8 = 0 /\ Feof(s)
    THEN [ok |-> FALSE, s |-> s, byte |-> b, px |-> U32(0), msgs |-> <<"eof_pix">>]
    ELSE
    LET r  == IF i % 8 = 0 THEN Fgetc(s) ELSE [c |-> b, s |-> s]
        b2 == r.c % (UINT8_MAX + 1)     \* the conversion to uint8_t
    IN  [ok |-> TRUE, s |-> r.s, byte |-> b2, msgs |-> <<>>,
         px |-> IF BitOf(b2, i) = 1 THEN Black ELSE White]

\* one pass of the loop of PbmAsciiLoad; wrote: a pixel was stored
PbmAsciiLoad(s) ==
    LET r == Fgetc(s)
    IN  IF r.c = EOF
        THEN [st |-> "ok", ok |-> FALSE, wrote |-> FALSE, s |-> r.s, px |-> U32(0),
              msgs |-> <<"eof_pix">>]
        ELSE IF r.c = ASCII.hash
        THEN LET k == SkipCommentNoEof(r.s)
             IN  [st |-> IF k.hang THEN "hang" ELSE "ok", ok |-> TRUE,
                  wrote |-> FALSE, s |-> k.s, px |-> U32(0), msgs |-> <<>>]
        ELSE IF r.c = ASCII.zero
        THEN [st |-> "ok", ok |-> TRUE, wrote |-> TRUE, s |-> r.s, px |-> White,
              msgs |-> <<>>]
        ELSE IF r.c = ASCII.one
        THEN [st |-> "ok", ok |-> TRUE, wrote |-> TRUE, s |-> r.s, px |-> Black,
              msgs |-> <<>>]
        ELSE [st |-> "ok", ok |-> TRUE, wrote |-> FALSE, s |-> r.s, px |-> U32(0),
              msgs |-> <<>>]

-----------------------------------------------------------------------------
(* The files PnmLoad is run on *)

MaxPay == 4       \* bytes of raw or PBM-ASCII pixel data
MaxSamples == 3   \* ASCII sample tokens

RECURSIVE Concat(_)
Concat(ss) == IF ss = <<>> THEN <<>> ELSE Head(ss) \o Concat(Tail(ss))

SeqsUpTo(S, n) == UNION {[1..k -> S] : k \in 0..n}

InSeq(x, s) == \E i \in 1..Len(s) : s[i] = x

\* the characters of a decimal numeral given by its digits
Dec(ds) == [i \in 1..Len(ds) |-> ASCII.zero + ds[i]]

T0 == Dec(<<0>>)
T1 == Dec(<<1>>)
T2 == Dec(<<2>>)
T3 == Dec(<<3>>)
T4 == Dec(<<4>>)
T5 == Dec(<<5>>)
T255 == Dec(<<2, 5, 5>>)
T300 == Dec(<<3, 0, 0>>)
T65535 == Dec(<<6, 5, 5, 3, 5>>)
T65536 == Dec(<<6, 5, 5, 3, 6>>)
T70000 == Dec(<<7, 0, 0, 0, 0>>)
TInt32 == Dec(<<2, 1, 4, 7, 4, 8, 3, 6, 4, 8>>)      \* 2^31
TUint32 == Dec(<<4, 2, 9, 4, 9, 6, 7, 2, 9, 6>>)     \* 2^32
TUint32p1 == Dec(<<4, 2, 9, 4, 9, 6, 7, 2, 9, 7>>)   \* 2^32 + 1
TBad == <<ASCII.x>>
T1Bad == <<ASCII.one, ASCII.x>>
TNone == <<>>

Comment == <<ASCII.hash, ASCII.c, ASCII.nl>>
OpenComment == <<ASCII.hash, ASCII.c>>

\* separators after the magic number, between tokens, after the last token
PlainLayout == [s0 |-> <<ASCII.nl>>, mid |-> <<ASCII.sp>>, term |-> <<ASCII.nl>>]
Layouts ==
    {PlainLayout,
     [s0 |-> <<ASCII.sp>> \o Comment, mid |-> Comment, term |-> Comment]}

\* the file ends with the header's last token, or inside a comment after it
EofLayouts ==
    {[s0 |-> <<ASCII.nl>>, mid |-> <<ASCII.sp>>, term |-> <<>>],
     [s0 |-> <<ASCII.nl>>, mid |-> <<ASCII.sp>>, term |-> OpenComment]}

GoodDims == {<<T1, T1>>, <<T2, T1>>, <<T3, T3>>, <<TUint32p1, T1>>}
BadDims == {<<T0, T1>>, <<T1, T0>>, <<TBad, T1>>, <<T1, T1Bad>>, <<T1, TNone>>,
            <<T65536, T65536>>, <<TInt32, T1>>, <<T1, TInt32>>}
GoodMax == {T1, T255, T65535, TUint32p1}
BadMax == {T0, T65536, T70000, TBad, TNone, TInt32}

RawBytes == {1, 128}
PbmChars == {ASCII.zero, ASCII.one, ASCII.hash, ASCII.nl}
SampleToks == {T1, T300, TUint32}
SampleEnds == {<<ASCII.nl>>, <<>>, <<ASCII.hash>>}

IsPbm(d) == d \in {1, 4}
IsAscii(d) == d \in {1, 2, 3}

NoTok == [w |-> <<>>, h |-> <<>>, m |-> <<>>, d |-> <<>>, data |-> <<>>,
          samples |-> <<>>, good |-> FALSE]

\* the text of ASCII samples, one space after each but the last
RECURSIVE SampleText(_)
SampleText(ss) ==
    IF ss = <<>> THEN <<>>
    ELSE IF Len(ss) = 1 THEN Head(ss)
    ELSE Head(ss) \o <<ASCII.sp>> \o SampleText(Tail(ss))

Positional(d, wt, ht, mt, L, data) ==
    <<ASCII.P, ASCII.zero + d>> \o L.s0 \o wt \o L.mid \o ht
      \o (IF IsPbm(d) THEN <<>> ELSE L.mid \o mt) \o L.term \o data

PamKey == [W |-> KW.WIDTH, H |-> KW.HEIGHT, D |-> KW.DEPTH, M |-> KW.MAXVAL,
           T |-> <<84, 85, 80, 76, 84, 89, 80, 69>>,
           X |-> KW.WIDTH \o <<ASCII.x>>,
           V |-> <<ASCII.x>>]

PamOrders == {<<"W", "H", "D", "M">>, <<"D", "M", "H", "W">>,
              <<"X", "W", "H", "D", "T", "M">>}
PamPartial == {<<"W", "H", "D">>, <<"W", "H", "M">>, <<"W", "D", "M">>,
               <<"H", "D", "M">>}

PamLine(k, v) == PamKey[k] \o <<ASCII.sp>> \o v \o <<ASCII.nl>>

PamFile(order, val, endhdr, data) ==
    <<ASCII.P, ASCII.seven, ASCII.nl>>
      \o Concat([i \in 1..Len(order) |-> PamLine(order[i], val[order[i]])])
      \o (IF endhdr THEN KW.ENDHDR \o <<ASCII.nl>> ELSE <<>>) \o data

PamVal(wt, ht, dt, mt) ==
    [W |-> wt, H |-> ht, D |-> dt, M |-> mt, T |-> <<82, 71, 66>>, X |-> T5,
     V |-> KW.MAXVAL]

MagicFiles ==
    {<<>>, <<ASCII.P>>, <<ASCII.x>>, <<ASCII.one>>, <<ASCII.P, ASCII.x>>,
     <<ASCII.P, ASCII.zero>>, <<ASCII.P, ASCII.nine>>, <<ASCII.P, ASCII.P>>,
     <<ASCII.x, ASCII.one, ASCII.nl, ASCII.one, ASCII.sp, ASCII.one, ASCII.nl>>,
     <<ASCII.P, ASCII.nine, ASCII.nl, ASCII.one, ASCII.sp, ASCII.one, ASCII.nl>>,
     <<ASCII.P, ASCII.sp, ASCII.one, ASCII.nl, ASCII.one, ASCII.sp, ASCII.one>>}

\* the caller's *w, *h before the call; what an uninitialised local may hold
Priors == {<<0, 0>>, <<1, 2>>}
\* PamLoad declares its locals depth and maxval without a value, and
\* ReadPamHeader reads them after its loop whether or not a DEPTH or MAXVAL
\* pair assigned them.  Unset stands in a local for "not assigned": a pair
\* that leaves the loop running assigns a value of 0 or more.
Unset == -2

\* an unassigned depth holds any int: every int below 1 fares as 0 does and
\* every int above 4 as 5 does
GarbageDepths == 0..5

\* the samples the pixel loops can read from position p on: a byte, or two
\* bytes with the first one high
RawSamples(p) ==
    {file[i] : i \in (p + 1)..Len(file)}
      \cup {file[i] * (UINT8_MAX + 1) + file[i + 1] :
               i \in (p + 1)..(Len(file) - 1)}

\* an unassigned maxval holds any int.  An int below 1 fares as 0 does and
\* one above 65535 as 65536 does.  Within 1..65535 the decoder asks of
\* maxval whether it is above 255, whether a sample s is above it, and what
\* floor(s * 255 / maxval) is: each answer is the same on a range of
\* maxvals whose greatest member is 255, 65535, s - 1 or floor(s * 255 / v)
\* for a v in 1..255, so every maxval fares as the least of these at or
\* above it does.
GarbageMaxvals(p) ==
    {0, UINT8_MAX, UINT16_MAX, UINT16_MAX + 1}
      \cup (({s - 1 : s \in RawSamples(p)}
               \cup {(s * 255) \div v : s \in RawSamples(p), v \in 1..255})
             \cap 1..UINT16_MAX)

\* what ReadPamHeader finds in *maxval and *depth after its loop, the stream
\* being at position p
Garbage(m0, d0, p) ==
    (IF m0 = Unset THEN GarbageMaxvals(p) ELSE {m0})
      \X (IF d0 = Unset THEN GarbageDepths ELSE {d0})
UB == {"wrap", "trap"}

Start(f, t, open, prior) ==
    /\ file = f /\ tok = t /\ canOpen = open
    /\ w = prior[1] /\ h = prior[2]
    /\ pc = "start" /\ variant = 0 /\ pos = 0 /\ eof = FALSE
    /\ opened = 0 /\ closed = 0 /\ allocd = 0 /\ freed = 0
    /\ maxval = 0 /\ depth = 0 /\ pixSize = 0 /\ pix = <<>> /\ byte = 0
    /\ msgs = <<>> /\ pixPtr = "NULL" /\ ret = "none"

InitMagic ==
    \E f \in MagicFiles, open \in BOOLEAN, prior \in Priors :
        Start(f, NoTok, open, prior)

\* every header, with no pixel data behind it
InitHeaders ==
    \E d \in 1..6, wh \in GoodDims \cup BadDims, mt \in GoodMax \cup BadMax,
       L \in Layouts \cup EofLayouts, prior \in Priors :
        /\ IsPbm(d) => mt = T1
        /\ Start(Positional(d, wh[1], wh[2], mt, L, <<>>),
                 [NoTok EXCEPT !.w = wh[1], !.h = wh[2],
                               !.m = IF IsPbm(d) THEN <<>> ELSE mt],
                 TRUE, prior)

\* headers in range, with raw or PBM-ASCII pixel data
InitData ==
    \E d \in {1, 4, 5, 6}, wh \in GoodDims, mt \in GoodMax, L \in Layouts :
      \E data \in SeqsUpTo(IF d = 1 THEN PbmChars ELSE RawBytes, MaxPay) :
        /\ IsPbm(d) => mt = T1
        /\ Start(Positional(d, wh[1], wh[2], mt, L, data),
                 [NoTok EXCEPT !.w = wh[1], !.h = wh[2],
                               !.m = IF IsPbm(d) THEN <<>> ELSE mt,
                               !.data = data, !.good = TRUE],
                 TRUE, <<0, 0>>)

\* headers in range, with ASCII samples
InitSamples ==
    \E d \in {2, 3}, wh \in GoodDims, mt \in GoodMax :
      \E ss \in SeqsUpTo(SampleToks, MaxSamples), e \in SampleEnds :
        Start(Positional(d, wh[1], wh[2], mt, PlainLayout, SampleText(ss) \o e),
              [NoTok EXCEPT !.w = wh[1], !.h = wh[2], !.m = mt,
                            !.samples = ss, !.good = TRUE],
              TRUE, <<0, 0>>)

\* PAM headers in range, with raw pixel data
InitPamData ==
    \E order \in {<<"D", "M", "H", "W">>, <<"X", "W", "H", "D", "T", "M">>},
       wh \in {<<T1, T1>>, <<T2, T1>>}, dt \in {T1, T2, T3, T4},
       mt \in {T1, T255, T65535}, data \in SeqsUpTo(RawBytes, MaxPay) :
        Start(PamFile(order, PamVal(wh[1], wh[2], dt, mt), TRUE, data),
              [NoTok EXCEPT !.w = wh[1], !.h = wh[2], !.m = mt, !.d = dt,
                            !.data = data, !.good = TRUE],
              TRUE, <<0, 0>>)

\* every PAM header, whole or lacking a field or ENDHDR, with one data byte
InitPamHeaders ==
    \E wh \in {<<T1, T1>>, <<T0, T1>>, <<T1, T0>>},
       dt \in {T0, T1, T4, T5}, mt \in {T0, T255, T65535, T70000, TUint32p1},
       order \in PamOrders \cup PamPartial, endhdr \in BOOLEAN, prior \in Priors :
        /\ order \in PamPartial => dt = T1 /\ mt = T255
        /\ Start(PamFile(order, PamVal(wh[1], wh[2], dt, mt), endhdr, <<1>>),
                 [NoTok EXCEPT !.w = IF InSeq("W", order) THEN wh[1] ELSE <<>>,
                               !.h = IF InSeq("H", order) THEN wh[2] ELSE <<>>,
                               !.m = IF InSeq("M", order) THEN mt ELSE <<>>,
                               !.d = IF InSeq("D", order) THEN dt ELSE <<>>,
                               !.data = <<1>>],
                 TRUE, prior)

\* what may follow ENDHDR: one white-space character or one comment
EndhdrEnds == {<<ASCII.nl>>, <<ASCII.sp>>, Comment}

\* raw data that begins with bytes a tokenizer would take for white space
\* or for the start of a comment
SpaceBytes ==
    {<<ASCII.nl>>, <<ASCII.sp, 1>>, <<ASCII.nl, ASCII.sp, ASCII.hash>>,
     <<ASCII.hash, ASCII.c, ASCII.nl, 1>>}

PamMixed ==
    {<<"H", "W", "M", "D">>, <<"M", "D", "W", "H">>,
     <<"T", "W", "H", "D", "M">>, <<"W", "X", "H", "T", "D", "M">>,
     <<"W", "H", "D", "M", "X">>, <<"D", "T", "X", "M", "H", "W">>,
     <<"W", "V", "H", "D", "M">>}

PamFileEnd(order, val, end, data) ==
    <<ASCII.P, ASCII.seven, ASCII.nl>>
      \o Concat([i \in 1..Len(order) |-> PamLine(order[i], val[order[i]])])
      \o KW.ENDHDR \o end \o data

\* whole PAM headers, the four pairs in every kind of order and unknown
\* pairs among them, with each ending of ENDHDR
InitPamOrder ==
    \E order \in PamMixed, wh \in {<<T1, T1>>, <<T2, T1>>}, dt \in {T1, T3},
       end \in EndhdrEnds, data \in SpaceBytes :
        Start(PamFileEnd(order, PamVal(wh[1], wh[2], dt, T255), end, data),
              [NoTok EXCEPT !.w = wh[1], !.h = wh[2], !.m = T255, !.d = dt,
                            !.data = data, !.good = TRUE],
              TRUE, <<0, 0>>)

\* no StrCreate call is in progress while PnmLoad runs
NoStr ==
    [pc |-> "none", fn |-> "none", fmt |-> <<>>, args |-> <<>>, plain |-> FALSE,
     size |-> <<0, 0, 0, 0>>, bytes |-> <<0, 0, 0, 0>>, written |-> -1,
     len |-> 0, any |-> {}, heap |-> "ok",
     dest |-> [null |-> TRUE, len |-> <<0, 0, 0, 0>>, bytes |-> <<0, 0, 0, 0>>,
               any |-> FALSE],
     appends |-> 0, live |-> 0, ret |-> "none"]

Init ==
    /\ \/ InitMagic \/ InitHeaders \/ InitData \/ InitSamples
       \/ InitPamData \/ InitPamHeaders \/ InitPamOrder
    /\ strCreate = NoStr

-----------------------------------------------------------------------------
(* PnmLoad, step by step *)

Stream == [pos |-> pos, eof |-> eof]

\* fopen
Open ==
    /\ pc = "start"
    /\ IF canOpen
       THEN /\ opened' = opened + 1
            /\ pc' = "opened"
            /\ UNCHANGED <<msgs, ret>>
       ELSE /\ msgs' = Append(msgs, "open")
            /\ ret' = "NULL"
            /\ pc' = "returned"
            /\ UNCHANGED opened
    /\ UNCHANGED <<strCreate,
                   file, canOpen, tok, variant, pos, eof, closed, w, h, maxval,
                   depth, allocd, freed, pixSize, pix, byte, pixPtr>>

\* ReadMagic with a switch that takes every digit for a variant
ReadMagicAnyDigit ==
    /\ pc = "opened"
    /\ LET r1 == Fgetc(Stream)
           r2 == Fgetc(r1.s)
       IN  IF r1.c # ASCII.P
           THEN /\ msgs' = Append(msgs, "magic")
                /\ closed' = closed + 1
                /\ ret' = "NULL"
                /\ pc' = "returned"
                /\ pos' = r1.s.pos /\ eof' = r1.s.eof
                /\ UNCHANGED <<variant, pixPtr, maxval, depth>>
           ELSE /\ pos' = r2.s.pos /\ eof' = r2.s.eof
                /\ pixPtr' = "NULL"
                /\ UNCHANGED <<closed, ret>>
                /\ IF r2.c >= ASCII.zero /\ r2.c <= ASCII.nine
                   THEN /\ variant' = r2.c - ASCII.zero
                        /\ pc' = "header"
                        /\ UNCHANGED msgs
                        /\ IF r2.c = ASCII.seven
                           THEN maxval' = Unset /\ depth' = Unset
                           ELSE UNCHANGED <<maxval, depth>>
                   ELSE /\ msgs' = Append(msgs, "magic")
                        /\ pc' = "close"
                        /\ UNCHANGED <<variant, maxval, depth>>
    /\ UNCHANGED <<strCreate,
                   file, canOpen, tok, opened, w, h, allocd, freed, pixSize, pix,
                   byte>>

\* the two fgetc calls on the magic number and the switch on the second
ReadMagic ==
    /\ pc = "opened"
    /\ LET r1 == Fgetc(Stream)
           r2 == Fgetc(r1.s)
       IN  IF r1.c # ASCII.P
           THEN /\ msgs' = Append(msgs, "magic")
                /\ closed' = closed + 1
                /\ ret' = "NULL"
                /\ pc' = "returned"
                /\ pos' = r1.s.pos /\ eof' = r1.s.eof
                /\ UNCHANGED <<variant, pixPtr, maxval, depth>>
           ELSE /\ pos' = r2.s.pos /\ eof' = r2.s.eof
                /\ pixPtr' = "NULL"
                /\ UNCHANGED <<closed, ret>>
                /\ IF r2.c >= ASCII.one /\ r2.c <= ASCII.seven
                   THEN /\ variant' = r2.c - ASCII.zero
                        /\ pc' = "header"
                        /\ UNCHANGED msgs
                        /\ IF r2.c = ASCII.seven
                           THEN maxval' = Unset /\ depth' = Unset
                           ELSE UNCHANGED <<maxval, depth>>
                   ELSE /\ msgs' = Append(msgs, "magic")
                        /\ pc' = "close"
                        /\ UNCHANGED <<variant, maxval, depth>>
    /\ UNCHANGED <<strCreate,
                   file, canOpen, tok, opened, w, h, allocd, freed, pixSize, pix,
                   byte>>

\* what a header reader's result r does to the decoder that called it
HeaderResult(r) ==
    /\ pos' = r.s.pos /\ eof' = r.s.eof
    /\ w' = r.w /\ h' = r.h /\ maxval' = r.maxval /\ depth' = r.depth
    /\ msgs' = msgs \o r.msgs
    /\ IF r.st # "ok"
       THEN pc' = r.st /\ UNCHANGED <<allocd, pixSize, pixPtr>>
       ELSE IF r.pix
       THEN /\ allocd' = allocd + 1
            /\ pixSize' = r.size
            /\ pc' = "pixels"
            /\ UNCHANGED pixPtr
       ELSE /\ pixPtr' = "NULL"
            /\ pc' = "close"
            /\ UNCHANGED <<allocd, pixSize>>
    /\ UNCHANGED <<strCreate,
                   file, canOpen, tok, variant, opened, closed, freed, pix, byte,
                   ret>>

\* PgmAsciiLoad, PpmAsciiLoad, PgmRawLoad, PpmRawLoad: the call of ReadHeader
PositionalHeader ==
    /\ pc = "header" /\ variant \in {2, 3, 5, 6}
    /\ \E ub \in UB, mem \in BOOLEAN :
          HeaderResult(ReadHeader(Stream, w, h, maxval, depth, ub, mem))

\* PbmAsciiLoad, PbmRawLoad: the call of ReadPbmHeader
PbmHeader ==
    /\ pc = "header" /\ variant \in {1, 4}
    /\ \E ub \in UB, mem \in BOOLEAN :
          HeaderResult(ReadPbmHeader(Stream, w, h, maxval, depth, ub, mem))

\* a pass of the loop that ends where it began, with header still true: the
\* stream has ended, every TokenMatch fails, and every later pass is the same
PamPassIdle(r) ==
    /\ r.s = Stream /\ r.msgs = <<>>
    /\ r.w = w /\ r.h = h /\ r.maxval = maxval /\ r.depth = depth

\* what one pass r of ReadPamHeader's loop does to PamLoad
PamFieldResult(r) ==
    /\ pos' = r.s.pos /\ eof' = r.s.eof
    /\ w' = r.w /\ h' = r.h /\ maxval' = r.maxval /\ depth' = r.depth
    /\ msgs' = msgs \o r.msgs
    /\ pc' = IF r.st # "ok" THEN r.st
             ELSE IF r.ret THEN "close"
             ELSE IF r.done THEN "pamcheck"
             ELSE IF PamPassIdle(r) THEN "hang" ELSE "header"
    /\ pixPtr' = IF r.st = "ok" /\ r.ret THEN "NULL" ELSE pixPtr
    /\ UNCHANGED <<strCreate,
                   file, canOpen, tok, variant, opened, closed, allocd, freed,
                   pixSize, pix, byte, ret>>

\* PamLoad: one pass of the loop of ReadPamHeader
PamHeaderField ==
    /\ pc = "header" /\ variant = 7
    /\ \E ub \in UB :
          PamFieldResult(ReadPamHeaderLoop(Stream, w, h, maxval, depth, ub))

\* PamLoad: ReadPamHeader after ENDHDR
PamHeaderCheck ==
    /\ pc = "pamcheck"
    /\ \E ub \in UB, mem \in BOOLEAN, g \in Garbage(maxval, depth, pos) :
          HeaderResult(ReadPamHeaderCheck(Stream, w, h, g[1], g[2], ub, mem))

\* PixelResult with the free(pix) of the failure paths left out
PixelResultNoFree(st, ok, wrote, s, px, b, out) ==
    /\ pos' = s.pos /\ eof' = s.eof
    /\ msgs' = msgs \o out
    /\ byte' = b
    /\ IF st # "ok"
       THEN pc' = st /\ UNCHANGED <<w, h, freed, pixPtr, pix, pixSize>>
       ELSE IF ~ok
       THEN /\ w' = -1 /\ h' = -1
            /\ pixPtr' = "NULL"
            /\ pc' = "close"
            /\ UNCHANGED <<freed, pix, pixSize>>
       ELSE /\ pix' = IF wrote THEN Append(pix, px) ELSE pix
            /\ UNCHANGED <<w, h, freed, pixPtr, pixSize, pc>>
    /\ UNCHANGED <<strCreate,
                   file, canOpen, tok, variant, opened, closed, maxval, depth,
                   allocd, ret>>

\* what one pass of a pixel loop does: it hangs or traps (st), fails (~ok),
\* or goes on, having stored px at pix[i] if wrote
PixelResult(st, ok, wrote, s, px, b, out) ==
    /\ pos' = s.pos /\ eof' = s.eof
    /\ msgs' = msgs \o out
    /\ byte' = b
    /\ IF st # "ok"
       THEN pc' = st /\ UNCHANGED <<w, h, freed, pixPtr, pix, pixSize>>
       ELSE IF ~ok
       THEN /\ w' = -1 /\ h' = -1
            /\ freed' = freed + 1
            /\ pix' = <<>> /\ pixSize' = 0
            /\ pixPtr' = "NULL"
            /\ pc' = "close"
       ELSE /\ pix' = IF wrote THEN Append(pix, px) ELSE pix
            /\ UNCHANGED <<w, h, freed, pixPtr, pixSize, pc>>
    /\ UNCHANGED <<strCreate,
                   file, canOpen, tok, variant, opened, closed, maxval, depth,
                   allocd, ret>>

InLoop == pc = "pixels" /\ Len(pix) < pixSize

\* a pass that stores a pixel unless it fails
Stored(r) == PixelResult(r.st, r.ok, TRUE, r.s, r.px, byte, r.msgs)

PbmAsciiStored(r) == PixelResult(r.st, r.ok, r.wrote, r.s, r.px, byte, r.msgs)

PbmRawStored(r) == PixelResult("ok", r.ok, TRUE, r.s, r.px, r.byte, r.msgs)

PbmAsciiPixel ==
    /\ InLoop /\ variant = 1
    /\ PbmAsciiStored(PbmAsciiLoad(Stream))

PgmAsciiPixel ==
    /\ InLoop /\ variant = 2
    /\ \E ub \in UB : Stored(PgmAsciiLoad(Stream, maxval, ub))

PpmAsciiPixel ==
    /\ InLoop /\ variant = 3
    /\ \E ub \in UB : Stored(PpmAsciiLoad(Stream, maxval, ub))

PbmRawPixel ==
    /\ InLoop /\ variant = 4
    /\ PbmRawStored(PbmRawLoad(Stream, Len(pix), byte))

\* PgmRawLoad, and PamLoad with depth 1 or 2
GrayscalePixel ==
    /\ InLoop /\ (variant = 5 \/ (variant = 7 /\ depth \in {1, 2}))
    /\ Stored(GrayscaleLoad(Stream, maxval, variant = 7 /\ depth = 2))

\* PpmRawLoad, and PamLoad with depth 3 or 4
ColorPixel ==
    /\ InLoop /\ (variant = 6 \/ (variant = 7 /\ depth \in {3, 4}))
    /\ Stored(ColorLoad(Stream, maxval, variant = 7 /\ depth = 4))

\* the pixel loop ends and the decoder returns pix
DecoderReturn ==
    /\ pc = "pixels" /\ Len(pix) >= pixSize
    /\ pixPtr' = "buf"
    /\ pc' = "close"
    /\ UNCHANGED <<strCreate,
                   file, canOpen, tok, variant, pos, eof, opened, closed, w, h,
                   maxval, depth, allocd, freed, pixSize, pix, byte, msgs, ret>>

\* fclose(f); return pix;
Close ==
    /\ pc = "close"
    /\ closed' = closed + 1
    /\ ret' = pixPtr
    /\ pc' = "returned"
    /\ UNCHANGED <<strCreate,
                   file, canOpen, tok, variant, pos, eof, opened, w, h, maxval,
                   depth, allocd, freed, pixSize, pix, byte, msgs, pixPtr>>

\* a loop on an ended stream: fgetc yields EOF again, nothing changes
Hang ==
    /\ pc = "hang"
    /\ UNCHANGED vars

Next ==
    \/ Open \/ ReadMagic
    \/ PositionalHeader \/ PbmHeader \/ PamHeaderField \/ PamHeaderCheck
    \/ PbmAsciiPixel \/ PgmAsciiPixel \/ PpmAsciiPixel
    \/ PbmRawPixel \/ GrayscalePixel \/ ColorPixel
    \/ DecoderReturn \/ Close \/ Hang

Spec == Init /\ [][Next]_vars

-----------------------------------------------------------------------------
(* size_t arithmetic, 64 bits: four 16-bit limbs, most significant first *)

Limb == 2 ^ 16

\* the size_t of an int n >= 0
SizeT(n) == <<0, 0, n \div Limb, n % Limb>>

\* an int converted to size_t: a negative value is sign-extended
SizeOfInt(n) ==
    IF n >= 0
    THEN SizeT(n)
    ELSE LET low == (n + 2147483647) + 1
         IN  <<Limb - 1, Limb - 1, (Limb \div 2) + (low \div Limb), low % Limb>>

SizeAdd(a, b) ==
    LET s4 == a[4] + b[4]
        s3 == a[3] + b[3] + (s4 \div Limb)
        s2 == a[2] + b[2] + (s3 \div Limb)
        s1 == a[1] + b[1] + (s2 \div Limb)
    IN  <<s1 % Limb, s2 % Limb, s3 % Limb, s4 % Limb>>

\* a >= b for two size_t values
SizeGe(a, b) ==
    \E k \in 1..5 :
        /\ \A j \in 1..(k - 1) : a[j] = b[j]
        /\ k <= 4 => a[k] > b[k]

\* a - b for a >= b
SizeSub(a, b) ==
    SizeAdd(SizeAdd(a, [j \in 1..4 |-> (Limb - 1) - b[j]]), SizeT(1))

\* a request malloc can grant: at most PTRDIFF_MAX bytes
SizeGrantable(a) == a[1] < Limb \div 2

\* a + b leaves the range of int
AddOverflows(a, b) ==
    \/ b > 0 /\ a > 2147483647 - b
    \/ b < 0 /\ a < (-2147483647 - 1) - b

\* a + b as a wrapping build computes it
AddWrap(a, b) ==
    LET x  == Halves(a)
        y  == Halves(b)
        lo == x.lo + y.lo
    IN  FromHalves((x.hi + y.hi + (lo \div Limb)) % Limb, lo % Limb)

-----------------------------------------------------------------------------
(* Shy Str: the arguments of a call *)

\* an argument of the variable list: an int (also a long, a character or an
\* address), a string of char or of wchar_t, or a double or long double of
\* value -h/2 or h/2
NoArg == [kind |-> "none", int |-> 0, s |-> <<>>, neg |-> FALSE, halves |-> 0]
IntArg(n) == [NoArg EXCEPT !.kind = "int", !.int = n]
StrArg(t) == [NoArg EXCEPT !.kind = "str", !.s = t]
WStrArg(t) == [NoArg EXCEPT !.kind = "wstr", !.s = t]
\* the int * that %n writes through
PtrArg == [NoArg EXCEPT !.kind = "ptr"]
DblArg(neg, hv) == [NoArg EXCEPT !.kind = "dbl", !.neg = neg, !.halves = hv]
LDblArg(neg, hv) == [DblArg(neg, hv) EXCEPT !.kind = "ldbl"]

\* The registers a call passes arguments in (x86-64 System V): six general
\* ones, the named parameters first, and eight vector ones.
GpRegs == 6
FpRegs == 8

\* a stack slot of 8 bytes: it holds an argument ("whole"), a half of a long
\* double ("lo", "hi"), or nothing, left out to align a long double to 16
\* bytes ("pad")
Slot(arg, part) == [arg |-> arg, part |-> part]

\* What va_start finds, for a call with named parameters before the variable
\* ones (1, fmt, in StrCreate; 2, dest_p and fmt, in StrAppend): an int or an
\* address is passed in the next general register, a double in the next
\* vector register, and on the stack, in the order of the call, what has no
\* register left and every long double.
RECURSIVE VaList(_, _)
VaList(args, named) ==
    IF args = <<>>
    THEN [named |-> named, gp |-> <<>>, fp |-> <<>>, stack |-> <<>>]
    ELSE LET list == VaList(SubSeq(args, 1, Len(args) - 1), named)
             arg  == args[Len(args)]
         IN  IF arg.kind = "ldbl"
             THEN [list EXCEPT
                       !.stack = (IF Len(@) % 2 = 1
                                  THEN Append(@, Slot(NoArg, "pad")) ELSE @)
                                 \o <<Slot(arg, "lo"), Slot(arg, "hi")>>]
             ELSE IF arg.kind = "dbl" /\ Len(list.fp) < FpRegs
             THEN [list EXCEPT !.fp = Append(@, arg)]
             ELSE IF arg.kind # "dbl" /\ list.named + Len(list.gp) < GpRegs
             THEN [list EXCEPT !.gp = Append(@, arg)]
             ELSE [list EXCEPT !.stack = Append(@, Slot(arg, "whole"))]

\* va_start: the general and vector registers read so far and the stack
\* slots read so far
VaStart(list) == [gp |-> list.named, fp |-> 0, mem |-> 0]

\* va_arg of an int or address ("gp"), a double ("fp") or a long double
\* ("mem"): the next register of its kind, and the stack once these are
\* used up; a long double is read from the next two slots at an even
\* offset.  NoArg where the call put no argument or not a whole one.
VaArg(list, k, class) ==
    LET slot == IF k.mem < Len(list.stack) THEN list.stack[k.mem + 1]
                ELSE Slot(NoArg, "pad")
        even == k.mem + (k.mem % 2)
    IN  IF class = "gp" /\ k.gp < GpRegs
        THEN (IF k.gp - list.named < Len(list.gp)
              THEN list.gp[k.gp - list.named + 1] ELSE NoArg)
        ELSE IF class = "fp" /\ k.fp < FpRegs
        THEN (IF k.fp < Len(list.fp) THEN list.fp[k.fp + 1] ELSE NoArg)
        ELSE IF class = "mem"
        THEN (IF even < Len(list.stack) /\ list.stack[even + 1].part = "lo"
              THEN list.stack[even + 1].arg ELSE NoArg)
        ELSE IF slot.part = "whole" THEN slot.arg ELSE NoArg

\* the list after va_arg read took arguments (0 or 1)
VaNext(k, class, took) ==
    IF took = 0 THEN k
    ELSE IF class = "gp" /\ k.gp < GpRegs THEN [k EXCEPT !.gp = @ + 1]
    ELSE IF class = "fp" /\ k.fp < FpRegs THEN [k EXCEPT !.fp = @ + 1]
    ELSE IF class = "mem" THEN [k EXCEPT !.mem = @ + (@ % 2) + 2]
    ELSE [k EXCEPT !.mem = @ + 1]

\* How a run resolves what C leaves undefined.  int: signed overflow wraps
\* or traps.  wild: a step on a value the program never set (an int without
\* an initial value, a buffer nothing was printed to, an argument that was
\* not passed or has another type, the bytes behind the format) goes on with
\* an indeterminate value ("read"), faults when it reads memory through it
\* ("crash"), or overflows when it computes with it ("trap", in a build that
\* traps).
StrUB == [int : UB, wild : {"crash", "trap", "read"}]

\* an int under way: st "ok" and its value n; st "any", an indeterminate
\* value, which may be any int; st "trap" or "crash", the run ended there;
\* took is the number of arguments read for it
Chunked(st, n, took) == [st |-> st, n |-> n, took |-> took]

Indeterminate(took) == Chunked("any", 0, took)

\* signed arithmetic on an indeterminate int
AnyPlus(took, ub) ==
    IF ub.int = "trap" /\ ub.wild = "trap" THEN Chunked("trap", 0, took)
    ELSE Indeterminate(took)

\* strlen of what is no string of the program's
AnyStrlen(took, ub) ==
    IF ub.wild = "crash" THEN Chunked("crash", 0, took)
    ELSE Indeterminate(took)

\* va_arg(args, int), and va_arg of a long or of an address given as a
\* number: the argument when one was passed there, anything otherwise
VaInt(arg) ==
    IF arg.kind = "int" THEN Chunked("ok", arg.int, 1) ELSE Indeterminate(1)

-----------------------------------------------------------------------------
(* Shy Str: SHYSTR_StrSize reading one conversion specification *)

\* fmt[i] of a NUL-terminated string, i counted from 1
FmtAt(fmt, i) == IF i >= 1 /\ i <= Len(fmt) THEN fmt[i] ELSE 0

IsFlag(ch) ==
    ch \in {ASCII.minus, ASCII.plus, ASCII.sp, ASCII.hash, ASCII.zero}

\* the index after the flags that start at i
RECURSIVE FlagsEnd(_, _)
FlagsEnd(fmt, i) == IF IsFlag(FmtAt(fmt, i)) THEN FlagsEnd(fmt, i + 1) ELSE i

Parsed(st, n, next, k) == [st |-> st, n |-> n, next |-> next, k |-> k]

\* n = (n * 10) + (fmt[i] - '0') while fmt[i] is a digit
RECURSIVE FmtNumber(_, _, _, _, _)
FmtNumber(fmt, i, n, k, ub) ==
    IF ~IsDigit(FmtAt(fmt, i)) THEN Parsed("ok", n, i, k)
    ELSE IF MulAdd10Overflows(n, fmt[i] - ASCII.zero) /\ ub.int = "trap"
    THEN Parsed("trap", n, i, k)
    ELSE FmtNumber(fmt, i + 1, MulAdd10Wrap(n, fmt[i] - ASCII.zero), k, ub)

\* width = va_arg(args, int); st is "any" when no int was passed there
FmtWidth(fmt, i, args, k, ub) ==
    IF FmtAt(fmt, i) = ASCII.star
    THEN LET v == VaInt(VaArg(args, k, "gp"))
         IN  Parsed(v.st, v.n, i + 1, VaNext(k, "gp", 1))
    ELSE IF IsDigit(FmtAt(fmt, i)) THEN FmtNumber(fmt, i, 0, k, ub)
    ELSE Parsed("ok", -1, i, k)

FmtPrecision(fmt, i, args, k, ub) ==
    IF FmtAt(fmt, i) # ASCII.dot THEN Parsed("ok", -1, i, k)
    ELSE IF FmtAt(fmt, i + 1) = ASCII.star
    THEN LET v == VaInt(VaArg(args, k, "gp"))
         IN  Parsed(v.st, v.n, i + 2, VaNext(k, "gp", 1))
    ELSE IF IsDigit(FmtAt(fmt, i + 1)) THEN FmtNumber(fmt, i + 1, 0, k, ub)
    ELSE Parsed("ok", 0, i + 1, k)

\* the length modifier at i: its code and the index after it
FmtLength(fmt, i) ==
    LET ch == FmtAt(fmt, i)
    IN  IF ch = ASCII.h
        THEN IF FmtAt(fmt, i + 1) = ASCII.h
             THEN [length |-> -2, next |-> i + 2]
             ELSE [length |-> -1, next |-> i + 1]
        ELSE IF ch = ASCII.l
        THEN IF FmtAt(fmt, i + 1) = ASCII.l
             THEN [length |-> 2, next |-> i + 2]
             ELSE [length |-> 1, next |-> i + 1]
        ELSE IF ch = ASCII.j THEN [length |-> 3, next |-> i + 1]
        ELSE IF ch = ASCII.z THEN [length |-> 4, next |-> i + 1]
        ELSE IF ch = ASCII.t THEN [length |-> 5, next |-> i + 1]
        ELSE IF ch = ASCII.L THEN [length |-> 6, next |-> i + 1]
        ELSE [length |-> 0, next |-> i]

\* the specification whose flags start at i, k being the next argument:
\* flags, width, precision (anyWidth, anyPrecision: indeterminate), length,
\* the conversion character and its index
FmtSpecTail(fmt, i, f, wd, pr, ln) ==
    [st |-> IF wd.st = "trap" \/ pr.st = "trap" THEN "trap" ELSE "ok",
     flags |-> {fmt[j] : j \in i..(f - 1)},
     width |-> wd.n, precision |-> pr.n, length |-> ln.length,
     anyWidth |-> wd.st = "any", anyPrecision |-> pr.st = "any",
     conv |-> FmtAt(fmt, ln.next), at |-> ln.next, k |-> pr.k]

FmtSpecPrecision(fmt, i, f, wd, pr) ==
    FmtSpecTail(fmt, i, f, wd, pr, FmtLength(fmt, pr.next))

FmtSpecWidth(fmt, i, args, ub, f, wd) ==
    FmtSpecPrecision(fmt, i, f, wd, FmtPrecision(fmt, wd.next, args, wd.k, ub))

FmtSpec(fmt, i, args, k, ub) ==
    FmtSpecWidth(fmt, i, args, ub, FlagsEnd(fmt, i),
                 FmtWidth(fmt, FlagsEnd(fmt, i), args, k, ub))

-----------------------------------------------------------------------------
(* The length of what sprintf writes for one argument *)

RECURSIVE BaseDigits(_, _)
BaseDigits(n, base) ==
    IF n < base THEN 1 ELSE 1 + BaseDigits(n \div base, base)

Digits(n) == BaseDigits(n, 10)

RECURSIVE Pow(_, _)
Pow(b, e) == IF e <= 0 THEN 1 ELSE b * Pow(b, e - 1)

RECURSIVE BitLen(_)
BitLen(n) == IF n = 0 THEN 0 ELSE 1 + BitLen(n \div 2)

RECURSIVE TrailingZeros(_, _)
TrailingZeros(n, base) ==
    IF n = 0 \/ n % base # 0 THEN 0 ELSE 1 + TrailingZeros(n \div base, base)

Min(a, b) == IF a < b THEN a ELSE b
Max(a, b) == IF a > b THEN a ELSE b

\* q with the remainder r of a division rounded in, ties to even
RoundHalfEven(q, r, half) ==
    IF r > half \/ (r = half /\ q % 2 = 1) THEN q + 1 ELSE q

\* "%i": an int or a long
SignedLen(n) ==
    IF n < -999999999 THEN 11 ELSE IF n < 0 THEN 1 + Digits(-n) ELSE Digits(n)

\* "%u", "%o", "%x": a negative argument is 2^32 + n, or 2^64 + n when the
\* type read has 64 bits
UnsignedLen(n, base, wide) ==
    IF n >= 0 THEN BaseDigits(n, base)
    ELSE IF base = 10 THEN (IF wide THEN 20 ELSE 10)
    ELSE IF base = 8 THEN (IF wide THEN 22 ELSE 11)
    ELSE IF base = 2 THEN (IF wide THEN 64 ELSE 32)
    ELSE (IF wide THEN 16 ELSE 8)

\* "%p"
PointerLen(n) == IF n = 0 THEN 5 ELSE 2 + UnsignedLen(n, 16, TRUE)

\* A length is 0 or more.  Below 0 it tells why there is none: the
\* conversion cannot be done (Illegal), the output has more than INT_MAX
\* characters (TooLong), or the call is undefined (Undefined).
Illegal == -1
TooLong == -2
Undefined == -3

\* a + b of two lengths
Sum(a, b) ==
    IF a < 0 \/ b < 0 THEN Min(a, b)
    ELSE IF AddOverflows(a, b) THEN TooLong ELSE a + b

\* "%.pf" of hv/2 without its sign; alt is the # flag
FixedLen(hv, p, alt) ==
    IF p = 0
    THEN Digits(RoundHalfEven(hv \div 2, hv % 2, 1)) + (IF alt THEN 1 ELSE 0)
    ELSE Sum(Digits(hv \div 2) + 1, p)

\* "%.pe": d.ddde+XX, the exponent of hv/2 having two digits
SciLen(p, alt) == Sum(IF p > 0 \/ alt THEN 6 ELSE 5, p)

\* "%.pg", p >= 1: hv/2 is N/10 with N = 5 * hv, rounded to p significant
\* digits q with decimal exponent x; glibc drops the fraction of the #
\* form when rounding a value of p integer digits carries into 10^p
ShortestStyle(p, alt, q, nd, x, quirk) ==
    LET s == IF alt THEN (IF quirk THEN 1 ELSE p)
             ELSE nd - TrailingZeros(q, 10)
    IN  IF x < -4 \/ x >= p
        THEN Sum(5, IF s > 1 \/ alt THEN s ELSE 0)
        ELSE IF x >= 0
        THEN Sum(x + 1,
                 IF s > x + 1 \/ alt THEN Sum(1, Max(s - (x + 1), 0)) ELSE 0)
        ELSE Sum(1 - x, s)

ShortestRounded(p, alt, d, k, q) ==
    IF q = Pow(10, p)
    THEN ShortestStyle(p, alt, Pow(10, p - 1), p, d - 1, k = 1)
    ELSE ShortestStyle(p, alt, q, p, d - 2, FALSE)

ShortestDigits(n, p, alt, d) ==
    IF d <= p THEN ShortestStyle(p, alt, n, d, d - 2, FALSE)
    ELSE ShortestRounded(p, alt, d, d - p,
                         RoundHalfEven(n \div Pow(10, d - p),
                                       n % Pow(10, d - p),
                                       Pow(10, d - p) \div 2))

ShortestLen(hv, p, alt) ==
    IF hv = 0 THEN (IF alt THEN Sum(p, 1) ELSE 1)
    ELSE ShortestDigits(5 * hv, p, alt, Digits(5 * hv))

\* "%a" (lead = 1 bit before the point) and "%La" (lead = 4 bits) of hv/2
\* with b significant bits: 0xh.hhhp+e; p < 0 prints the digits there are.
\* Rounding a long double may carry into a new leading digit 1, the
\* exponent four greater.
HexFloatExp(hv, p, lead, b) ==
    LET e == b - 2 - (lead - 1)
        keep == lead + 4 * p
    IN  IF lead = 4 /\ p >= 0 /\ p < 16 /\ b > keep
           /\ RoundHalfEven(hv \div Pow(2, b - keep), hv % Pow(2, b - keep),
                            Pow(2, b - keep - 1)) = Pow(2, keep)
        THEN e + 4 ELSE e

HexFloatLen(hv, p, alt, lead) ==
    IF hv = 0 THEN Sum(IF p > 0 \/ alt THEN 7 ELSE 6, Max(p, 0))
    ELSE LET b == BitLen(hv)
             t == b - TrailingZeros(hv, 2)
             hd == IF p < 0 THEN (Max(t - lead, 0) + 3) \div 4 ELSE p
             e == HexFloatExp(hv, p, lead, b)
         IN  Sum((IF hd > 0 \/ alt THEN 6 ELSE 5)
                   + Digits(IF e < 0 THEN -e ELSE e),
                 hd)

MinusLen(arg) == IF arg.neg THEN 1 ELSE 0

-----------------------------------------------------------------------------
(* Shy Str: the size helpers and SHYSTR_StrSize *)

SHYSTR_FMTFLAGPLUS == ASCII.plus
SHYSTR_FMTFLAGSPACE == ASCII.sp
SHYSTR_FMTFLAGHASH == ASCII.hash

\* the lengths each helper's switch has a case for; with another length
\* nothing is printed to fmtbuf and no argument is taken: strlen(fmtbuf) is
\* that of what the stack held, the text of an earlier call or no NUL at all
IntLengths == {-2, -1, 0, 1, 2, 3, 5}
UIntLengths == {-2, -1, 0, 1, 2, 3, 4}

\* a helper's result: the strlen of fmtbuf and the arguments it took
Sized(n, took) == Chunked("ok", n, took)

\* sprintf(fmtbuf, "%i", va_arg(args, int)) and strlen(fmtbuf)
IntSized(v) == IF v.st = "ok" THEN Sized(SignedLen(v.n), 1) ELSE v

\* the same with "%u", "%o" or "%x"; wide when the type read has 64 bits
UIntSized(v, base, wide) ==
    IF v.st = "ok" THEN Sized(UnsignedLen(v.n, base, wide), 1) ELSE v

SHYSTR_IntSize(length, arg, ub) ==
    IF length \in IntLengths THEN IntSized(VaInt(arg)) ELSE AnyStrlen(0, ub)

SHYSTR_UIntSize(length, arg, ub) ==
    IF length \in UIntLengths THEN UIntSized(VaInt(arg), 10, length >= 1)
    ELSE AnyStrlen(0, ub)

SHYSTR_OctalSize(length, arg, ub) ==
    IF length \in UIntLengths THEN UIntSized(VaInt(arg), 8, length >= 1)
    ELSE AnyStrlen(0, ub)

SHYSTR_HexSize(length, arg, ub) ==
    IF length \in UIntLengths THEN UIntSized(VaInt(arg), 16, length >= 1)
    ELSE AnyStrlen(0, ub)

\* the four floating-point helpers: strlen of the number printed with no
\* precision, or strlen of it printed with precision 0 and the precision, a
\* size_t sum returned as an int
Alt(spec) == SHYSTR_FMTFLAGHASH \in spec.flags

SHYSTR_FloatSize(spec, arg) ==
    IF spec.precision < 0
    THEN MinusLen(arg) + FixedLen(arg.halves, 6, Alt(spec))
    ELSE AddWrap(MinusLen(arg) + FixedLen(arg.halves, 0, Alt(spec)),
                 spec.precision)

SHYSTR_SciSize(spec, arg) ==
    IF spec.precision < 0 THEN MinusLen(arg) + SciLen(6, Alt(spec))
    ELSE AddWrap(MinusLen(arg) + SciLen(0, Alt(spec)), spec.precision)

SHYSTR_ShortestSize(spec, arg) ==
    IF spec.precision < 0
    THEN MinusLen(arg) + ShortestLen(arg.halves, 6, Alt(spec))
    ELSE AddWrap(MinusLen(arg) + ShortestLen(arg.halves, 1, Alt(spec)),
                 spec.precision)

SHYSTR_HexFloatSize(spec, arg) ==
    IF spec.precision < 0
    THEN MinusLen(arg) + HexFloatLen(arg.halves, -1, Alt(spec), 4)
    ELSE AddWrap(MinusLen(arg) + HexFloatLen(arg.halves, 0, Alt(spec), 4),
                 spec.precision)

\* sizeof(wchar_t) for %lc, sizeof(char) otherwise
SHYSTR_CharSize(length) == IF length = 1 THEN 4 ELSE 1

\* sprintf(fmtbuf, "%p", va_arg(args, void *)) and strlen(fmtbuf): the
\* digits of an address given as a number, or of wherever an object lies
SHYSTR_PtrSize(arg) ==
    IF arg.kind = "int" THEN Sized(PointerLen(arg.int), 1)
    ELSE Indeterminate(1)

SHYSTR_NoPrintSize == 0

\* the number of elements of b before its first 0, all of them without one
Before0(b) ==
    IF \A j \in 1..Len(b) : b[j] # 0 THEN Len(b)
    ELSE (CHOOSE j \in 1..Len(b) : b[j] = 0 /\ \A i \in 1..(j - 1) : b[i] # 0)
           - 1

\* the bytes a string argument points to, up to its terminator; a wchar_t
\* has four, the least significant first
StringBytes(arg) ==
    IF arg.kind = "wstr"
    THEN Concat([j \in 1..Len(arg.s) |->
                    <<Halves(arg.s[j]).lo % 256, Halves(arg.s[j]).lo \div 256,
                      Halves(arg.s[j]).hi % 256, Halves(arg.s[j]).hi \div 256>>])
    ELSE arg.s

\* strlen of a string argument: the bytes before the first zero byte, which
\* in a wchar_t string is a byte of the first character that has one
Strlen(arg) == Before0(StringBytes(arg))

\* c + b, c an int under way
Plus(c, b, ub) ==
    IF c.st = "any" THEN AnyPlus(c.took, ub)
    ELSE IF c.st # "ok" THEN c
    ELSE IF AddOverflows(c.n, b) /\ ub.int = "trap"
    THEN [c EXCEPT !.st = "trap"]
    ELSE [c EXCEPT !.n = AddWrap(c.n, b)]

PlusIf(cond, c, b, ub) == IF cond THEN Plus(c, b, ub) ELSE c

Signed(spec) ==
    SHYSTR_FMTFLAGPLUS \in spec.flags \/ SHYSTR_FMTFLAGSPACE \in spec.flags

\* if (precision > chunk) chunk = precision;
AtLeast(spec, sized) ==
    IF sized.st # "ok" THEN sized
    ELSE IF spec.anyPrecision THEN Indeterminate(sized.took)
    ELSE Chunked("ok", Max(spec.precision, sized.n), sized.took)

\* a floating-point case: the helper reads a long double (length 6) or a
\* double and chunk++ follows with the + or space flag; n is what the helper
\* returns for the argument when it has the type read.  A number that was
\* not passed may have more digits than fmtbuf has room for.
FloatChunk(spec, arg, n, ub) ==
    PlusIf(Signed(spec),
           IF arg.kind # (IF spec.length = 6 THEN "ldbl" ELSE "dbl")
           THEN AnyStrlen(1, ub)
           ELSE IF spec.anyPrecision THEN Indeterminate(1)
           ELSE Chunked("ok", n, 1),
           1, ub)

\* chunk = strlen(va_arg(args, char *)); if (precision < chunk) chunk =
\* precision;
StringChunk(spec, arg, ub) ==
    IF arg.kind \notin {"str", "wstr"} THEN AnyStrlen(1, ub)
    ELSE IF spec.anyPrecision THEN Indeterminate(1)
    ELSE Chunked("ok", Min(spec.precision, Strlen(arg)), 1)

\* the switch on the conversion character; chunk0 is the chunk left by the
\* conversion before, which a character without a case leaves in place
Chunk(spec, arg, chunk0, ub) ==
    LET cv == spec.conv
    IN  IF cv \in {ASCII.d, ASCII.i}
        THEN PlusIf(Signed(spec),
                    AtLeast(spec, IF spec.length = 4
                                  THEN SHYSTR_UIntSize(spec.length, arg, ub)
                                  ELSE SHYSTR_IntSize(spec.length, arg, ub)),
                    1, ub)
        ELSE IF cv = ASCII.u
        THEN PlusIf(Signed(spec),
                    AtLeast(spec, IF spec.length = 5
                                  THEN SHYSTR_IntSize(spec.length, arg, ub)
                                  ELSE SHYSTR_UIntSize(spec.length, arg, ub)),
                    1, ub)
        ELSE IF cv = ASCII.o
        THEN PlusIf(Alt(spec),
                    AtLeast(spec, SHYSTR_OctalSize(spec.length, arg, ub)),
                    1, ub)
        ELSE IF cv \in {ASCII.x, ASCII.X}
        THEN PlusIf(Alt(spec),
                    AtLeast(spec, SHYSTR_HexSize(spec.length, arg, ub)),
                    2, ub)
        ELSE IF cv \in {ASCII.f, ASCII.F}
        THEN FloatChunk(spec, arg, SHYSTR_FloatSize(spec, arg), ub)
        ELSE IF cv \in {ASCII.e, ASCII.E}
        THEN FloatChunk(spec, arg, SHYSTR_SciSize(spec, arg), ub)
        ELSE IF cv \in {ASCII.g, ASCII.G}
        THEN FloatChunk(spec, arg, SHYSTR_ShortestSize(spec, arg), ub)
        ELSE IF cv \in {ASCII.a, ASCII.A}
        THEN FloatChunk(spec, arg, SHYSTR_HexFloatSize(spec, arg), ub)
        ELSE IF cv = ASCII.c
        THEN Chunked("ok", SHYSTR_CharSize(spec.length), 1)
        ELSE IF cv = ASCII.s THEN StringChunk(spec, arg, ub)
        ELSE IF cv = ASCII.p THEN SHYSTR_PtrSize(arg)
        ELSE IF cv = ASCII.n THEN Chunked("ok", SHYSTR_NoPrintSize, 1)
        ELSE IF cv = ASCII.pct THEN Chunked("ok", 1, 0)
        ELSE [chunk0 EXCEPT !.took = 0]

\* where the conversion reads its argument
ConvClass(spec) ==
    IF spec.conv \in {ASCII.f, ASCII.F, ASCII.e, ASCII.E, ASCII.g, ASCII.G,
                      ASCII.a, ASCII.A}
    THEN (IF spec.length = 6 THEN "mem" ELSE "fp") ELSE "gp"

\* if (width > chunk && fmt[i] != 'n') chunk = width;
Widened(spec, c) ==
    IF c.st \notin {"ok", "any"} \/ spec.conv = ASCII.n THEN c
    ELSE IF c.st = "any" \/ spec.anyWidth THEN Indeterminate(c.took)
    ELSE [c EXCEPT !.n = Max(spec.width, c.n)]

\* the size under way, and the result of SHYSTR_StrSize: st "ok" and the
\* size; st "any", an indeterminate size; st "trap" or "crash", no result
Size(st, size) == [st |-> st, size |-> size]

\* size += chunk; a negative chunk is converted to size_t
SizePlus(sz, c) ==
    IF sz.st = "any" \/ c.st = "any" THEN Size("any", SizeT(0))
    ELSE Size("ok", SizeAdd(sz.size, SizeOfInt(c.n)))

\* the loop going on behind the terminating NUL of the format, through
\* whatever the memory there holds
BehindFormat(ub) ==
    IF ub.wild = "crash" THEN Size("crash", SizeT(0))
    ELSE IF ub.int = "trap" /\ ub.wild = "trap" THEN Size("trap", SizeT(0))
    ELSE Size("any", SizeT(0))

\* the index of the first % at i or behind it, behind the format without
\* one: the characters from i up to it are ordinary text
FindSpec(fmt, i) ==
    IF \A j \in i..Len(fmt) : fmt[j] # ASCII.pct THEN Max(i, Len(fmt) + 1)
    ELSE CHOOSE j \in i..Len(fmt) :
             fmt[j] = ASCII.pct /\ \A m \in i..(j - 1) : fmt[m] # ASCII.pct

RECURSIVE StrSizeLoop(_, _, _, _, _, _, _)

\* size += chunk; and on with the loop.  When the format ends inside a
\* specification, fmt[i] is the terminating NUL at the switch and the i++ of
\* the loop steps over it
StrSizeChunk(fmt, args, spec, c, sz, ub) ==
    IF c.st \in {"trap", "crash"} THEN Size(c.st, SizeT(0))
    ELSE IF spec.at > Len(fmt) THEN BehindFormat(ub)
    ELSE StrSizeLoop(fmt, args, spec.at + 1,
                     VaNext(spec.k, ConvClass(spec), c.took),
                     SizePlus(sz, c), c, ub)

StrSizeSpec(fmt, args, spec, sz, chunk, ub) ==
    IF spec.st # "ok" THEN Size("trap", SizeT(0))
    ELSE StrSizeChunk(fmt, args, spec,
                      Widened(spec,
                              Chunk(spec,
                                    VaArg(args, spec.k, ConvClass(spec)),
                                    chunk, ub)),
                      sz, ub)

\* for (i = 0; fmt[i]; i++): a % starts a specification, and size++ for
\* each character of the text up to the next one
StrSizeLoop(fmt, args, i, k, sz, chunk, ub) ==
    IF i > Len(fmt) THEN sz
    ELSE IF fmt[i] = ASCII.pct
    THEN StrSizeSpec(fmt, args, FmtSpec(fmt, i + 1, args, k, ub), sz, chunk,
                     ub)
    ELSE IF sz.st = "any"
    THEN StrSizeLoop(fmt, args, FindSpec(fmt, i), k, sz, chunk, ub)
    ELSE StrSizeLoop(fmt, args, FindSpec(fmt, i), k,
                     Size("ok", SizeAdd(sz.size, SizeT(FindSpec(fmt, i) - i))),
                     chunk, ub)

\* size is 0 and chunk has no initial value
SHYSTR_StrSize(fmt, args, ub) ==
    StrSizeLoop(fmt, args, 1, VaStart(args), Size("ok", SizeT(0)),
                Indeterminate(0), ub)

-----------------------------------------------------------------------------
(* vsprintf of the C library the code is built with (glibc): the number of  *)
(* characters written for a format and its arguments                       *)

\* what %m and %#m write, for an errno of 0 ("Success", "0") and of ENOENT
\* ("No such file or directory", "ENOENT")
Strerrors == {[msg |-> 7, name |-> 1], [msg |-> 25, name |-> 6]}

IsPrintfFlag(ch) == IsFlag(ch) \/ ch \in {ASCII.quote, ASCII.I}

RECURSIVE PrintfFlagsEnd(_, _)
PrintfFlagsEnd(fmt, i) ==
    IF IsPrintfFlag(FmtAt(fmt, i)) THEN PrintfFlagsEnd(fmt, i + 1) ELSE i

\* a number of the format; "over" when it does not fit an int
RECURSIVE PrintfNumber(_, _, _, _, _)
PrintfNumber(fmt, i, n, k, st) ==
    IF ~IsDigit(FmtAt(fmt, i)) THEN Parsed(st, n, i, k)
    ELSE IF st = "over" \/ MulAdd10Overflows(n, fmt[i] - ASCII.zero)
    THEN PrintfNumber(fmt, i + 1, 0, k, "over")
    ELSE PrintfNumber(fmt, i + 1, n * 10 + (fmt[i] - ASCII.zero), k, st)

\* vsprintf starts on a fast path and, at the first specification that path
\* has no entry for, goes on with the format on a slow one, which reads a
\* number that does not fit an int as if it were not there
Lenient(p, none) == IF p.st = "over" THEN [p EXCEPT !.st = "ok", !.n = none] ELSE p

\* the width on the fast path: none is 0.  A negative * argument is the -
\* flag and a width, INT_MIN a width of more than INT_MAX; st is "any" when
\* no int was passed there, and "over" when digits behind the * do not fit an
\* int
PrintfWidth(fmt, i, args, k) ==
    IF FmtAt(fmt, i) = ASCII.star
    THEN LET arg == VaArg(args, k, "gp")
         IN  Parsed(IF PrintfNumber(fmt, i + 1, 0, k, "ok").st = "over"
                    THEN "over"
                    ELSE IF arg.kind # "int" THEN "any"
                    ELSE IF arg.int < -2147483647 THEN "long" ELSE "ok",
                    arg.int, i + 1, VaNext(k, "gp", 1))
    ELSE PrintfNumber(fmt, i, 0, k, "ok")

\* the precision on the fast path: none is -1, and so is a negative *
\* argument
PrintfPrecision(fmt, i, args, k) ==
    IF FmtAt(fmt, i) # ASCII.dot THEN Parsed("ok", -1, i, k)
    ELSE IF FmtAt(fmt, i + 1) = ASCII.star
    THEN LET arg == VaArg(args, k, "gp")
         IN  Parsed(IF PrintfNumber(fmt, i + 2, 0, k, "ok").st = "over"
                    THEN "over"
                    ELSE IF arg.kind # "int" THEN "any" ELSE "ok",
                    Max(arg.int, -1), i + 2, VaNext(k, "gp", 1))
    ELSE PrintfNumber(fmt, i + 1, 0, k, "ok")

\* the length modifier: -2 hh, -1 h, 0 none, 1 a long (l, j, z, t, Z),
\* 2 a long long or a long double (ll), 3 the same (L, q), which the slow
\* path reads as an int before an integer conversion
PrintfLength(fmt, i) ==
    LET ch == FmtAt(fmt, i)
    IN  IF ch = ASCII.h
        THEN IF FmtAt(fmt, i + 1) = ASCII.h
             THEN [length |-> -2, next |-> i + 2]
             ELSE [length |-> -1, next |-> i + 1]
        ELSE IF ch = ASCII.l
        THEN IF FmtAt(fmt, i + 1) = ASCII.l
             THEN [length |-> 2, next |-> i + 2]
             ELSE [length |-> 1, next |-> i + 1]
        ELSE IF ch \in {ASCII.j, ASCII.z, ASCII.t, ASCII.Z}
        THEN [length |-> 1, next |-> i + 1]
        ELSE IF ch \in {ASCII.L, ASCII.q} THEN [length |-> 3, next |-> i + 1]
        ELSE [length |-> 0, next |-> i]

\* the specification whose flags are fmt[i..f-1], with its width wd and its
\* precision pr.  st: "any" when a * read no int, "over" when a number does
\* not fit an int, "long" when the width is INT_MIN; zero: the 0 flag, which
\* a - flag of the format drops and the - of a negative * width does not
PrintfSpecTail(fmt, i, f, wd, pr, ln) ==
    [st |-> IF wd.st = "any" \/ pr.st = "any" THEN "any"
            ELSE IF wd.st = "over" \/ pr.st = "over" THEN "over"
            ELSE wd.st,
     flags |-> {fmt[j] : j \in i..(f - 1)}
               \cup (IF wd.n < 0 THEN {ASCII.minus} ELSE {}),
     zero |-> /\ \E j \in i..(f - 1) : fmt[j] = ASCII.zero
              /\ \A j \in i..(f - 1) : fmt[j] # ASCII.minus,
     width |-> IF wd.st # "ok" THEN 0 ELSE IF wd.n < 0 THEN -wd.n ELSE wd.n,
     precision |-> pr.n, length |-> ln.length,
     conv |-> FmtAt(fmt, ln.next), at |-> ln.next, k |-> pr.k]

PrintfSpecPrecision(fmt, i, f, wd, pr) ==
    PrintfSpecTail(fmt, i, f, wd, pr, PrintfLength(fmt, pr.next))

PrintfSpecWidth(fmt, i, args, f, wd) ==
    PrintfSpecPrecision(fmt, i, f, wd,
                        PrintfPrecision(fmt, wd.next, args, wd.k))

\* the specification behind the % at i - 1 as the fast path reads it
PrintfSpec(fmt, i, args, k) ==
    PrintfSpecWidth(fmt, i, args, PrintfFlagsEnd(fmt, i),
                    PrintfWidth(fmt, PrintfFlagsEnd(fmt, i), args, k))

FloatConvs ==
    {ASCII.f, ASCII.F, ASCII.e, ASCII.E, ASCII.g, ASCII.G, ASCII.a, ASCII.A}

IntConvs ==
    {ASCII.d, ASCII.i, ASCII.u, ASCII.o, ASCII.x, ASCII.X, ASCII.b, ASCII.B,
     ASCII.c, ASCII.C}

PrintfConvs ==
    FloatConvs \cup IntConvs
      \cup {ASCII.s, ASCII.S, ASCII.p, ASCII.n, ASCII.m, ASCII.pct}

\* the specifications the fast path has no entry for: a character that is no
\* conversion (the $ of n$ and a digit behind a * among them), and h before
\* a conversion that takes no short
SlowSpec(spec) ==
    \/ spec.conv \notin PrintfConvs
    \/ /\ spec.length = -1
       /\ spec.conv \in FloatConvs \cup {ASCII.c, ASCII.C, ASCII.s, ASCII.S,
                                          ASCII.p, ASCII.m}

\* the argument as the type the length modifier names
SignedValue(spec, n) ==
    IF spec.length = -2 THEN (((n % 256) + 128) % 256) - 128
    ELSE IF spec.length = -1 THEN (((n % 65536) + 32768) % 65536) - 32768
    ELSE n

UnsignedValue(spec, n) ==
    IF spec.length = -2 THEN n % 256
    ELSE IF spec.length = -1 THEN n % 65536
    ELSE n

\* the digits of a number: at least the precision; none for 0 with
\* precision 0
NumberDigits(spec, zero, len) ==
    IF spec.precision = 0 /\ zero THEN 0 ELSE Max(spec.precision, len)

SignLen(spec, neg) ==
    IF neg \/ ASCII.plus \in spec.flags \/ ASCII.sp \in spec.flags
    THEN 1 ELSE 0

LongInt(spec, slow) == spec.length \in {1, 2} \/ (spec.length = 3 /\ ~slow)

PrintedUnsigned(spec, v, base, slow) ==
    NumberDigits(spec, v = 0, UnsignedLen(v, base, LongInt(spec, slow)))

\* what one conversion writes before padding: its length, the arguments it
\* takes, and whether the width pads it
Out(n, took, pad) == [n |-> n, took |-> took, pad |-> pad]

PrintedString(spec, len) ==
    IF spec.precision >= 0 THEN Min(spec.precision, len) ELSE len

\* the n wide characters written are converted to bytes in the "C" locale,
\* which has none for a character outside 0..127
PrintedWide(t, n) ==
    IF \E j \in 1..n : t[j] < 0 \/ t[j] > 127 THEN Illegal ELSE n

\* %s writes the bytes of the string up to the first zero byte, %ls and %S
\* the wide characters of a wchar_t string (L and q make a string wide on
\* the fast path only), none of them read with a precision of 0.  Two bytes
\* or more of a char string read as a wchar_t are no character; one byte or
\* none are read together with the bytes that lie behind the string.
PrintedStringArg(spec, arg, slow) ==
    IF spec.conv # ASCII.S /\ ~LongInt(spec, slow)
    THEN PrintedString(spec, Strlen(arg))
    ELSE IF spec.precision = 0 THEN 0
    ELSE IF arg.kind = "wstr"
    THEN PrintedWide(arg.s, PrintedString(spec, Before0(arg.s)))
    ELSE IF Strlen(arg) >= 2 THEN Illegal
    ELSE Undefined

\* %c writes the int as an unsigned char; %lc and %C write a wide
\* character, converted as in a wide string
WideChar(spec, slow) == spec.conv = ASCII.C \/ LongInt(spec, slow)

PrintedChar(spec, arg, slow) ==
    IF WideChar(spec, slow) /\ (arg.int < 0 \/ arg.int > 127) THEN Illegal
    ELSE 1

\* the character written is a NUL
PrintedNul(spec, arg, slow) ==
    /\ spec.conv \in {ASCII.c, ASCII.C}
    /\ IF WideChar(spec, slow) THEN arg.int = 0 ELSE arg.int % 256 = 0

\* a character that is no conversion: the specification is written back as
\* % # - + 0 width .precision and the character, without the n$ it may
\* have; a width of INT_MIN is written as the 20 digits of 2^64 - 2^31
PrintedUnknown(spec) ==
    2 + Cardinality(spec.flags \cap {ASCII.hash, ASCII.minus, ASCII.quote,
                                     ASCII.I})
      + (IF spec.flags \cap {ASCII.plus, ASCII.sp} # {} THEN 1 ELSE 0)
      + (IF spec.zero THEN 1 ELSE 0)
      + (IF spec.st = "long" THEN 20
         ELSE IF spec.width # 0 THEN Digits(spec.width) ELSE 0)
      + (IF spec.precision # -1 THEN 1 + Digits(spec.precision) ELSE 0)

\* a floating-point conversion of more than INT_MAX characters: the library
\* computes with lengths that have left their range
PrintedFloat(n) == IF n = TooLong THEN Undefined ELSE n

\* On the slow path the 0 flag stays in force with the - of a negative *
\* width, and %a and %A are then written without padding.
Printed(spec, arg, err, slow) ==
    LET cv == spec.conv
        alt == ASCII.hash \in spec.flags
        p6 == IF spec.precision < 0 THEN 6 ELSE spec.precision
    IN  IF cv \in {ASCII.d, ASCII.i}
        THEN Out(Sum(SignLen(spec, SignedValue(spec, arg.int) < 0),
                     NumberDigits(spec, SignedValue(spec, arg.int) = 0,
                                  SignedLen(SignedValue(spec, arg.int))
                                    - (IF SignedValue(spec, arg.int) < 0
                                       THEN 1 ELSE 0))),
                 1, TRUE)
        ELSE IF cv = ASCII.u
        THEN Out(PrintedUnsigned(spec, UnsignedValue(spec, arg.int), 10,
                                 slow),
                 1, TRUE)
        ELSE IF cv = ASCII.o
        THEN Out(Sum(PrintedUnsigned(spec, UnsignedValue(spec, arg.int), 8,
                                     slow),
                     IF alt /\ (IF UnsignedValue(spec, arg.int) = 0
                                THEN spec.precision = 0
                                ELSE spec.precision
                                       <= UnsignedLen(
                                              UnsignedValue(spec, arg.int),
                                              8, LongInt(spec, slow)))
                     THEN 1 ELSE 0),
                 1, TRUE)
        ELSE IF cv \in {ASCII.x, ASCII.X}
        THEN Out(Sum(PrintedUnsigned(spec, UnsignedValue(spec, arg.int), 16,
                                     slow),
                     IF alt /\ UnsignedValue(spec, arg.int) # 0
                     THEN 2 ELSE 0),
                 1, TRUE)
        ELSE IF cv \in {ASCII.b, ASCII.B}
        THEN Out(Sum(PrintedUnsigned(spec, UnsignedValue(spec, arg.int), 2,
                                     slow),
                     IF alt /\ UnsignedValue(spec, arg.int) # 0
                     THEN 2 ELSE 0),
                 1, TRUE)
        ELSE IF cv \in {ASCII.f, ASCII.F}
        THEN Out(PrintedFloat(Sum(SignLen(spec, arg.neg),
                                  FixedLen(arg.halves, p6, alt))),
                 1, TRUE)
        ELSE IF cv \in {ASCII.e, ASCII.E}
        THEN Out(PrintedFloat(Sum(SignLen(spec, arg.neg), SciLen(p6, alt))),
                 1, TRUE)
        ELSE IF cv \in {ASCII.g, ASCII.G}
        THEN Out(PrintedFloat(Sum(SignLen(spec, arg.neg),
                                  ShortestLen(arg.halves, Max(p6, 1), alt))),
                 1, TRUE)
        ELSE IF cv \in {ASCII.a, ASCII.A}
        THEN Out(PrintedFloat(Sum(SignLen(spec, arg.neg),
                                  HexFloatLen(arg.halves, spec.precision, alt,
                                              IF spec.length >= 2
                                              THEN 4 ELSE 1))),
                 1, ~(slow /\ spec.zero /\ ASCII.minus \in spec.flags))
        ELSE IF cv \in {ASCII.c, ASCII.C}
        THEN Out(PrintedChar(spec, arg, slow), 1, TRUE)
        ELSE IF cv \in {ASCII.s, ASCII.S}
        THEN Out(PrintedStringArg(spec, arg, slow), 1, TRUE)
        ELSE IF cv = ASCII.p
        THEN IF arg.int = 0 THEN Out(5, 1, TRUE)
             ELSE Out(Sum(SignLen(spec, FALSE) + 2,
                          Max(spec.precision,
                              UnsignedLen(arg.int, 16, TRUE))),
                      1, TRUE)
        ELSE IF cv = ASCII.n THEN Out(0, 1, FALSE)
        ELSE IF cv = ASCII.m
        THEN Out(PrintedString(spec, IF alt THEN err.name ELSE err.msg),
                 0, TRUE)
        ELSE IF cv = ASCII.pct THEN Out(1, 0, FALSE)
        ELSE Out(PrintedUnknown(spec), 0, FALSE)

\* where the conversion reads its argument: a long double with ll, L or q
PrintfClass(spec) ==
    IF spec.conv \in FloatConvs
    THEN (IF spec.length >= 2 THEN "mem" ELSE "fp") ELSE "gp"

PrintfArg(args, spec) == VaArg(args, spec.k, PrintfClass(spec))

\* the argument has the type the conversion reads; when it has not, or none
\* was passed, what va_arg yields is not defined.  %p of an object's
\* address writes digits that differ from run to run.
ArgFits(spec, arg) ==
    IF spec.conv \in FloatConvs
    THEN arg.kind = (IF PrintfClass(spec) = "mem" THEN "ldbl" ELSE "dbl")
    ELSE IF spec.conv \in IntConvs \cup {ASCII.p} THEN arg.kind = "int"
    ELSE IF spec.conv \in {ASCII.s, ASCII.S} THEN arg.kind \in {"str", "wstr"}
    ELSE IF spec.conv = ASCII.n THEN arg.kind = "ptr"
    ELSE TRUE

PrintedArg(spec, arg, err, slow) ==
    IF ArgFits(spec, arg) THEN Printed(spec, arg, err, slow)
    ELSE Out(Undefined, 1, TRUE)

\* the count with one conversion added, padded to the width
Counted(n, spec, out) ==
    IF out.pad /\ out.n > 0 /\ spec.st = "long" THEN TooLong
    ELSE IF out.pad /\ out.n >= 0 /\ spec.width > out.n
    THEN Sum(n, spec.width)
    ELSE Sum(n, out.n)

\* vsprintf under way: n characters written; nul is the number of them
\* before the first NUL written by %c, -1 when there is none; done is the
\* number of specifications dealt with
Writing(n, nul, done) == [n |-> n, nul |-> nul, done |-> done]

\* the characters before the first NUL, the one vsprintf ends the text with
\* included
Terminated(wr) == IF wr.nul < 0 THEN wr.n ELSE wr.nul

\* one conversion written; padding is written before the character unless
\* the - flag is given
Written(wr, spec, arg, out, slow) ==
    Writing(Counted(wr.n, spec, out),
            IF wr.nul >= 0 \/ ~PrintedNul(spec, arg, slow) THEN wr.nul
            ELSE IF out.pad /\ spec.width > 1 /\ ASCII.minus \notin spec.flags
            THEN wr.n + (spec.width - 1)
            ELSE wr.n,
            wr.done + 1)

\* the outcome of vsprintf.  st "ok": it returns n, having written n
\* characters and a NUL, len is the strlen of str.  st "fail": it returns -1,
\* having written the put characters before the failing specification and
\* a NUL.  st "long": it returns -1 after it wrote more than INT_MAX
\* characters.  st "any": the call is undefined.
Wrote(st, n, put, len) == [st |-> st, n |-> n, put |-> put, len |-> len]

Stopped(code, wr) ==
    IF code = Undefined THEN Wrote("any", -1, 0, 0)
    ELSE IF code = TooLong THEN Wrote("long", -1, 0, 0)
    ELSE Wrote("fail", -1, wr.n, Terminated(wr))

-----------------------------------------------------------------------------
(* vsprintf on the slow path: every specification of the format is read     *)
(* first, then the arguments, then the specifications not yet dealt with    *)
(* are written                                                              *)

\* n$ at i names the n-th argument.  n is 0 when there is none (no digits,
\* no $ behind them, or a number 0) and when the number does not fit an int
\* (st "over"); next is the index behind the $, i when there is none.
ArgRef(fmt, i) ==
    LET p == PrintfNumber(fmt, i, 0, 0, "ok")
    IN  IF /\ p.next > i /\ FmtAt(fmt, p.next) = ASCII.dollar
           /\ (p.st = "over" \/ p.n # 0)
        THEN Parsed(p.st, p.n, p.next + 1, 0)
        ELSE Parsed("ok", 0, i, 0)

\* the argument a * at i stands for: the n-th for *n$ (ref), the one after
\* the nargs counted so far otherwise; arg is 0 when there is no * at i
StarArg(fmt, i, nargs) ==
    LET ref == ArgRef(fmt, i + 1)
    IN  IF FmtAt(fmt, i) # ASCII.star
        THEN [arg |-> 0, nargs |-> nargs, ref |-> 0, next |-> i]
        ELSE IF ref.n > 0
        THEN [arg |-> ref.n, nargs |-> nargs, ref |-> ref.n,
              next |-> ref.next]
        ELSE [arg |-> nargs + 1, nargs |-> nargs + 1, ref |-> 0,
              next |-> i + 1]

\* the conversions that take an argument
DataConvs == FloatConvs \cup IntConvs \cup {ASCII.s, ASCII.S, ASCII.p, ASCII.n}

\* the width of a specification whose flags end at f: none here when a *
\* gives it (ws)
ParsedWidth(fmt, f, ws) ==
    IF ws.arg # 0 THEN Parsed("ok", 0, ws.next, 0)
    ELSE Lenient(PrintfNumber(fmt, f, 0, 0, "ok"), 0)

\* the argument of a .* behind the width wd
ParsedPrecArg(fmt, ws, wd) ==
    IF FmtAt(fmt, wd.next) = ASCII.dot
    THEN StarArg(fmt, wd.next + 1, ws.nargs)
    ELSE [arg |-> 0, nargs |-> ws.nargs, ref |-> 0, next |-> wd.next]

\* the precision behind the width wd: none here when a * gives it (ps)
ParsedPrecision(fmt, wd, ps) ==
    IF FmtAt(fmt, wd.next) # ASCII.dot THEN Parsed("ok", -1, wd.next, 0)
    ELSE IF ps.arg # 0 THEN Parsed("ok", -1, ps.next, 0)
    ELSE Lenient(PrintfNumber(fmt, wd.next + 1, 0, 0, "ok"), -1)

\* The specification read without its arguments.  widthArg, precArg and
\* dataArg are the arguments its width, its precision and its conversion are
\* taken from, counted from 1, 0 for none; nargs is the count of arguments
\* taken in turn up to here, ref the greatest n of an n$.
ParsedSpec(fmt, data, f, ws, wd, ps, pr, ln) ==
    [i |-> data.next, f |-> f, wd |-> wd, pr |-> pr, ln |-> ln,
     length |-> ln.length, conv |-> FmtAt(fmt, ln.next), at |-> ln.next,
     widthArg |-> ws.arg, precArg |-> ps.arg,
     dataArg |-> IF FmtAt(fmt, ln.next) \notin DataConvs THEN 0
                 ELSE IF data.n > 0 THEN data.n ELSE ps.nargs + 1,
     nargs |-> IF FmtAt(fmt, ln.next) \in DataConvs /\ data.n = 0
               THEN ps.nargs + 1 ELSE ps.nargs,
     ref |-> Max(data.n, Max(ws.ref, ps.ref))]

ParseLength(fmt, data, f, ws, wd, ps, pr) ==
    ParsedSpec(fmt, data, f, ws, wd, ps, pr, PrintfLength(fmt, pr.next))

ParsePrecision(fmt, data, f, ws, wd, ps) ==
    ParseLength(fmt, data, f, ws, wd, ps, ParsedPrecision(fmt, wd, ps))

ParsePrecArg(fmt, data, f, ws, wd) ==
    ParsePrecision(fmt, data, f, ws, wd, ParsedPrecArg(fmt, ws, wd))

ParseWidth(fmt, data, f, ws) ==
    ParsePrecArg(fmt, data, f, ws, ParsedWidth(fmt, f, ws))

ParseFlags(fmt, data, f, nargs) ==
    ParseWidth(fmt, data, f, StarArg(fmt, f, nargs))

ParseArgRef(fmt, data, nargs) ==
    ParseFlags(fmt, data, PrintfFlagsEnd(fmt, data.next), nargs)

\* the specification behind the % at i - 1: an n$ first, flags, width,
\* precision, length modifier and conversion
ParseOneSpec(fmt, i, nargs) == ParseArgRef(fmt, ArgRef(fmt, i), nargs)

\* the specifications of the format from the % at i on
RECURSIVE ParseSpecs(_, _, _)

ParseNext(fmt, spec) ==
    <<spec>> \o ParseSpecs(fmt, FindSpec(fmt, spec.at + 1), spec.nargs)

ParseSpecs(fmt, i, nargs) ==
    IF i > Len(fmt) THEN <<>>
    ELSE ParseNext(fmt, ParseOneSpec(fmt, i + 1, nargs))

\* the number of arguments the format takes: those taken in turn, and the
\* greatest n of an n$ when that is more
Nargs(specs) ==
    LET ns == {0} \cup {specs[j].nargs : j \in DOMAIN specs}
                  \cup {specs[j].ref : j \in DOMAIN specs}
    IN  CHOOSE n \in ns : \A m \in ns : m <= n

\* the type an argument is read as for a conversion: an int, 8 bytes (a
\* long or an address), a double or a long double
DataType(spec) ==
    IF spec.conv \in FloatConvs
    THEN (IF spec.length >= 2 THEN "ldbl" ELSE "dbl")
    ELSE IF \/ spec.conv \in {ASCII.s, ASCII.S, ASCII.p, ASCII.n}
            \/ spec.conv \notin {ASCII.c, ASCII.C} /\ LongInt(spec, TRUE)
    THEN "long" ELSE "int"

\* The type each argument is read as: an int for a width or a precision and
\* for an argument no specification names; when several specifications name
\* an argument, the last one decides.
RECURSIVE ArgType(_, _)
ArgType(specs, j) ==
    IF specs = <<>> THEN "int"
    ELSE IF j = specs[Len(specs)].dataArg THEN DataType(specs[Len(specs)])
    ELSE IF j \in {specs[Len(specs)].widthArg, specs[Len(specs)].precArg}
    THEN "int"
    ELSE ArgType(SubSeq(specs, 1, Len(specs) - 1), j)

ArgsType(specs, nargs) == [j \in 1..nargs |-> ArgType(specs, j)]

\* the class of register or memory an argument of a type is read from
TypeClass(type) ==
    IF type = "dbl" THEN "fp" ELSE IF type = "ldbl" THEN "mem" ELSE "gp"

\* The slots of the stack above the arguments of a call that reading more
\* arguments than were passed may run through without leaving the stack: the
\* frames of the callers and what the process was started with lie there.
StackAbove == 64

\* The list behind the first n arguments, read in turn from the list as it
\* was at the call, each as its type; k is the list behind the first j.
\* Reading ends where the list leaves the stack.
RECURSIVE ArgsEnd(_, _, _, _, _)
ArgsEnd(list, type, j, n, k) ==
    IF j >= n \/ k.mem > Len(list.stack) + StackAbove THEN k
    ELSE ArgsEnd(list, type, j + 1, n,
                 VaNext(k, TypeClass(type[j + 1]), 1))

\* The arguments read: value[j] is the j-th, NoArg where the call put no
\* argument of that kind, and k the list behind the last.
ArgsValue(list, type) ==
    [value |-> [j \in DOMAIN type |->
                   VaArg(list, ArgsEnd(list, type, 0, j - 1, VaStart(list)),
                         TypeClass(type[j]))],
     k |-> ArgsEnd(list, type, 0, Len(type), VaStart(list))]

\* a specification with the width and the precision its arguments give it
PositionalSpec(fmt, s, value) ==
    PrintfSpecTail(
        fmt, s.i, s.f,
        IF s.widthArg = 0 THEN s.wd
        ELSE Parsed(IF value[s.widthArg].kind # "int" THEN "any"
                    ELSE IF value[s.widthArg].int < -2147483647 THEN "long"
                    ELSE "ok",
                    value[s.widthArg].int, s.wd.next, 0),
        IF s.precArg = 0 THEN s.pr
        ELSE Parsed(IF value[s.precArg].kind # "int" THEN "any" ELSE "ok",
                    Max(value[s.precArg].int, -1), s.pr.next, 0),
        s.ln)

\* the argument a conversion names, NoArg when it takes none
PositionalArg(s, value) ==
    IF s.dataArg = 0 THEN NoArg ELSE value[s.dataArg]

\* What a conversion writes for the argument it names.  An argument read as
\* an int has 4 bytes; the other 4 a conversion reads of it as a long or an
\* address are whatever the memory held.
PositionalOut(s, spec, value, type, err) ==
    IF s.dataArg # 0 /\ type[s.dataArg] = "int" /\ DataType(s) = "long"
    THEN Out(Undefined, 1, TRUE)
    ELSE PrintedArg(spec, PositionalArg(s, value), err, TRUE)

\* the characters of a specification the format ends in, written back
PrintedRest(n, wr) ==
    IF Sum(wr.n, n - 1) < 0 THEN Stopped(TooLong, wr)
    ELSE Wrote("ok", wr.n + n - 1, wr.n + n - 1,
               IF wr.nul < 0 THEN wr.n + n - 1 ELSE wr.nul)

RECURSIVE PositionalLoop(_, _, _, _, _, _, _)

\* a specification written as wr1, and the text behind it up to the next
PositionalText(fmt, specs, j, value, type, wr, wr1, text, err) ==
    IF wr1.n < 0 THEN Stopped(wr1.n, wr)
    ELSE IF AddOverflows(wr1.n, text) THEN Stopped(TooLong, wr)
    ELSE PositionalLoop(fmt, specs, j + 1, value, type,
                        [wr1 EXCEPT !.n = @ + text], err)

PositionalWrite(fmt, specs, j, value, type, wr, spec, err) ==
    IF spec.st = "any" THEN Stopped(Undefined, wr)
    ELSE IF spec.at > Len(fmt) THEN PrintedRest(PrintedUnknown(spec), wr)
    ELSE PositionalText(fmt, specs, j, value, type, wr,
                        Written(wr, spec, PositionalArg(specs[j], value),
                                PositionalOut(specs[j], spec, value, type,
                                              err),
                                TRUE),
                        FindSpec(fmt, spec.at + 1) - (spec.at + 1), err)

\* the specifications from the j-th on are written, each with the text
\* behind it up to the next one
PositionalLoop(fmt, specs, j, value, type, wr, err) ==
    IF j > Len(specs) THEN Wrote("ok", wr.n, wr.n, Terminated(wr))
    ELSE PositionalWrite(fmt, specs, j, value, type, wr,
                         PositionalSpec(fmt, specs[j], value), err)

\* Reading far more arguments than were passed leaves the stack.
PositionalRead(fmt, list, specs, type, read, wr, err) ==
    IF read.k.mem > Len(list.stack) + StackAbove THEN Stopped(Undefined, wr)
    ELSE PositionalLoop(fmt, specs, wr.done + 1, read.value, type, wr, err)

PositionalTypes(fmt, list, specs, type, wr, err) ==
    PositionalRead(fmt, list, specs, type, ArgsValue(list, type), wr, err)

PositionalArgs(fmt, list, specs, wr, err) ==
    IF Nargs(specs) > GpRegs + FpRegs + Len(list.stack) + StackAbove
    THEN Stopped(Undefined, wr)
    ELSE PositionalTypes(fmt, list, specs, ArgsType(specs, Nargs(specs)), wr,
                         err)

\* The slow path: the format is read from its first % on, the arguments are
\* read from the list as it was at the call, and what the fast path has not
\* dealt with is written.
PrintfPositional(fmt, list, wr, err) ==
    PositionalArgs(fmt, list, ParseSpecs(fmt, FindSpec(fmt, 1), 0), wr, err)

-----
(* vsprintf on the fast path *)

RECURSIVE VsprintfLoop(_, _, _, _, _, _)

\* a width or precision out of range, and a format that ends inside a
\* specification, make vsprintf return -1; a specification the fast path has
\* no entry for is left to the slow one, with all that follows
VsprintfSpec(fmt, args, spec, wr, err) ==
    IF spec.st = "over" THEN Stopped(Illegal, wr)
    ELSE IF spec.at > Len(fmt)
    THEN Stopped(IF spec.st = "any" THEN Undefined ELSE Illegal, wr)
    ELSE IF SlowSpec(spec) THEN PrintfPositional(fmt, args, wr, err)
    ELSE IF spec.st = "any" THEN Stopped(Undefined, wr)
    ELSE LET arg == PrintfArg(args, spec)
             out == PrintedArg(spec, arg, err, FALSE)
         IN  IF Counted(wr.n, spec, out) < 0
             THEN Stopped(Counted(wr.n, spec, out), wr)
             ELSE VsprintfLoop(fmt, args, spec.at + 1,
                               VaNext(spec.k, PrintfClass(spec), out.took),
                               Written(wr, spec, arg, out, FALSE), err)

\* the text up to the next % is written as it is
VsprintfLoop(fmt, args, i, k, wr, err) ==
    IF i > Len(fmt) THEN Wrote("ok", wr.n, wr.n, Terminated(wr))
    ELSE IF fmt[i] = ASCII.pct
    THEN VsprintfSpec(fmt, args, PrintfSpec(fmt, i + 1, args, k), wr, err)
    ELSE IF AddOverflows(wr.n, FindSpec(fmt, i) - i)
    THEN Stopped(TooLong, wr)
    ELSE VsprintfLoop(fmt, args, FindSpec(fmt, i), k,
                      [wr EXCEPT !.n = @ + (FindSpec(fmt, i) - i)], err)

\* vsprintf(str, fmt, args); err is what strerror(errno) is, which %m writes
Vsprintf(fmt, args, err) ==
    VsprintfLoop(fmt, args, 1, VaStart(args), Writing(0, -1, 0), err)

-----------------------------------------------------------------------------
(* The calls StrCreate and StrAppend are run on *)

MaxPieces == 2
MaxAppends == 1

Ints == {0, -5, 12345}
UInts == {0, 12345}
Strings == {<<>>, <<104, 101, 108, 108, 111>>}

Pct(t) == <<ASCII.pct>> \o t

\* %d and %u with an optional width and precision
NumberSpecs(ch) ==
    {Pct(<<ch>>), Pct(<<ASCII.seven, ch>>), Pct(<<ASCII.dot, ASCII.three, ch>>),
     Pct(<<ASCII.seven, ASCII.dot, ASCII.three, ch>>),
     Pct(<<ASCII.one, ASCII.dot, ASCII.zero, ch>>)}

\* %s with or without a precision
StringSpecs ==
    {Pct(<<ASCII.s>>), Pct(<<ASCII.dot, ASCII.three, ASCII.s>>),
     Pct(<<ASCII.dot, ASCII.zero, ASCII.s>>),
     Pct(<<ASCII.seven, ASCII.dot, ASCII.three, ASCII.s>>)}

Piece(f, a) == [fmt |-> f, args |-> a]

\* literal text, %%, %c, %d, %u and %s
PlainPieces ==
    {Piece(<<ASCII.a>>, <<>>), Piece(Pct(<<ASCII.pct>>), <<>>),
     Piece(Pct(<<ASCII.c>>), <<IntArg(ASCII.x)>>)}
    \cup {Piece(f, <<IntArg(n)>>) : f \in NumberSpecs(ASCII.d), n \in Ints}
    \cup {Piece(f, <<IntArg(n)>>) : f \in NumberSpecs(ASCII.u), n \in UInts}
    \cup {Piece(f, <<StrArg(t)>>) : f \in StringSpecs, t \in Strings}

\* the other integer conversions, flags, * and length modifiers
IntegerPieces ==
    {Piece(Pct(f), <<IntArg(n)>>) :
        f \in {<<ASCII.x>>, <<ASCII.hash, ASCII.X>>, <<ASCII.o>>,
               <<ASCII.hash, ASCII.dot, ASCII.three, ASCII.o>>,
               <<ASCII.plus, ASCII.d>>, <<ASCII.l, ASCII.d>>,
               <<ASCII.h, ASCII.h, ASCII.u>>, <<ASCII.z, ASCII.d>>,
               <<ASCII.L, ASCII.d>>, <<ASCII.t, ASCII.x>>, <<ASCII.p>>},
        n \in {0, 300}}
    \cup {Piece(Pct(<<ASCII.star, ASCII.d>>), <<IntArg(wd), IntArg(5)>>) :
             wd \in {7, -7}}
    \cup {Piece(Pct(<<ASCII.dot, ASCII.star, ASCII.d>>),
                <<IntArg(3), IntArg(5)>>),
          Piece(Pct(<<ASCII.n>>), <<PtrArg>>),
          Piece(Pct(<<ASCII.l, ASCII.c>>), <<IntArg(ASCII.x)>>),
          Piece(Pct(<<ASCII.dot, ASCII.three, ASCII.l, ASCII.s>>),
                <<WStrArg(<<104, 101, 108, 108, 111>>)>>),
          Piece(Pct(<<ASCII.seven, ASCII.y>>), <<>>),
          Piece(Pct(<<ASCII.m>>), <<>>),
          Piece(Pct(<<ASCII.three, ASCII.pct>>), <<>>)}

\* the floating-point conversions, on -1.5, 0 and 1000.5
FloatValues == {<<TRUE, 3>>, <<FALSE, 0>>, <<FALSE, 2001>>}

FloatPieces ==
    {Piece(Pct(f), <<DblArg(a[1], a[2])>>) :
        f \in {<<ASCII.f>>, <<ASCII.dot, ASCII.three, ASCII.f>>, <<ASCII.e>>,
               <<ASCII.dot, ASCII.zero, ASCII.E>>, <<ASCII.g>>,
               <<ASCII.hash, ASCII.dot, ASCII.one, ASCII.G>>, <<ASCII.a>>},
        a \in FloatValues}
    \cup {Piece(Pct(<<ASCII.dot, ASCII.zero, ASCII.L, ASCII.a>>),
                <<LDblArg(a[1], a[2])>>) : a \in FloatValues}

Pieces == PlainPieces \cup IntegerPieces \cup FloatPieces

\* a format that ends inside a specification, a width that does not fit an
\* int, and a width of INT_MAX
Whole ==
    {Piece(<<ASCII.a>> \o Pct(<<>>), <<>>),
     Piece(Pct(Dec(<<9, 9, 9, 9, 9, 9, 9, 9, 9, 9>>) \o <<ASCII.d>>),
           <<IntArg(5)>>),
     Piece(Pct(Dec(<<2, 1, 4, 7, 4, 8, 3, 6, 4, 7>>) \o <<ASCII.d>>),
           <<IntArg(5)>>)}

\* a NUL and a character above 127 printed, a conversion without its
\* argument, a string of LongLen characters, alone and behind a number as
\* wide as a chunk of MmapThreshold bytes, more arguments than there are
\* registers, an argument named by its number, and %a read on the slow path
\* with the 0 flag and a negative width
LongLen == 30

Odd ==
    {Piece(<<ASCII.a>> \o Pct(<<ASCII.c, ASCII.b>>), <<IntArg(0)>>),
     Piece(Pct(<<ASCII.l, ASCII.c>>), <<IntArg(233)>>),
     Piece(Pct(<<ASCII.d>>), <<>>),
     Piece(Pct(<<ASCII.s>>), <<StrArg([j \in 1..LongLen |-> ASCII.x])>>),
     Piece(Pct(Dec(<<1, 3, 1, 0, 6, 0>>) \o <<ASCII.d>>) \o Pct(<<ASCII.s>>),
           <<IntArg(5), StrArg([j \in 1..LongLen |-> ASCII.x])>>),
     Piece(Concat([j \in 1..GpRegs |-> Pct(<<ASCII.d>>)])
             \o Pct(<<ASCII.dot, ASCII.zero, ASCII.L, ASCII.a>>),
           [j \in 1..GpRegs |-> IntArg(12345)] \o <<LDblArg(FALSE, 3)>>),
     Piece(Pct(<<ASCII.one, ASCII.dollar, ASCII.d>>),
           <<IntArg(5), IntArg(7)>>),
     Piece(Pct(<<ASCII.zero, ASCII.star, ASCII.h, ASCII.a>>),
           <<IntArg(-9), DblArg(FALSE, 31)>>)}

Calls == SeqsUpTo(Pieces, MaxPieces) \cup {<<p>> : p \in Whole \cup Odd}

\* what StrAppend is called with: fmt, or no format at all
Appended ==
    {Piece(<<ASCII.a>>, <<>>), Piece(Pct(<<ASCII.d>>), <<IntArg(12345)>>),
     Piece(Pct(<<ASCII.s>>), <<StrArg(<<104, 105>>)>>),
     Piece(Pct(<<ASCII.seven, ASCII.dot, ASCII.three, ASCII.s>>),
           <<StrArg(<<104, 101, 108, 108, 111>>)>>)}

\* the string the caller holds: none (NULL), or its strlen and its buffer;
\* any when the strlen is indeterminate, and with it the size a buffer is
\* asked for
NoDest == [null |-> TRUE, len |-> SizeT(0), bytes |-> SizeT(0), any |-> FALSE]
Dest(len, bytes, any) ==
    [null |-> FALSE, len |-> len, bytes |-> bytes, any |-> any]

\* size, bytes: the result of SHYSTR_StrSize and the bytes malloc gave;
\* written, len: what vsprintf returned and the strlen of str; any: which of
\* "size" (and bytes), "written" and "len" are indeterminate; heap: "corrupt"
\* once a write went past the end of a buffer
StrInit ==
    /\ Start(<<>>, NoTok, FALSE, <<0, 0>>)
    /\ \E call \in Calls :
           strCreate =
               [pc |-> "call", fn |-> "create",
                fmt |-> Concat([j \in 1..Len(call) |-> call[j].fmt]),
                args |-> Concat([j \in 1..Len(call) |-> call[j].args]),
                plain |-> \A j \in 1..Len(call) : call[j] \in PlainPieces,
                size |-> SizeT(0), bytes |-> SizeT(0), written |-> -1,
                len |-> 0, any |-> {}, heap |-> "ok",
                dest |-> NoDest, appends |-> 0, live |-> 0, ret |-> "none"]

-----------------------------------------------------------------------------
(* SHYSTR_vStrCreate and SHYSTR_vStrAppend, step by step *)

pnm == <<file, canOpen, tok, pc, variant, pos, eof, opened, closed, w, h,
         maxval, depth, allocd, freed, pixSize, pix, byte, msgs, pixPtr, ret>>

\* size_t size = SHYSTR_StrSize(fmt, args);
StrSizeResult(r) ==
    strCreate' = [strCreate EXCEPT
                      !.pc = IF r.st \in {"ok", "any"} THEN "sized" ELSE r.st,
                      !.size = r.size,
                      !.any = IF r.st = "any" THEN {"size"} ELSE {}]

\* va_start(args, fmt) in StrCreate or StrAppend
Args == VaList(strCreate.args, IF strCreate.fn = "append" THEN 2 ELSE 1)

StrSizeCall ==
    /\ strCreate.pc = "call"
    /\ \E ub \in StrUB :
           StrSizeResult(SHYSTR_StrSize(strCreate.fmt, Args, ub))
    /\ UNCHANGED pnm

\* what a call of malloc or realloc does: it returns a pointer or NULL (a
\* request of indeterminate size may be granted or not), and on a heap a
\* write has corrupted it may also abort the program, when the allocator
\* (glibc) finds the damage, or fault
HeapCalls(heap) ==
    {"ptr", "null"} \cup (IF heap = "corrupt" THEN {"abort", "crash"} ELSE {})

\* char *str = malloc(size + 1); NULL is returned with nothing written
StrMallocResult(request, got) ==
    IF got \in {"abort", "crash"}
    THEN strCreate' = [strCreate EXCEPT !.pc = got]
    ELSE IF got = "ptr" /\ ("size" \in strCreate.any \/ SizeGrantable(request))
    THEN strCreate' = [strCreate EXCEPT !.pc = "alloc", !.bytes = request,
                                        !.live = @ + 1]
    ELSE strCreate' = [strCreate EXCEPT !.pc = "null"]

StrMalloc ==
    /\ strCreate.pc = "sized"
    /\ \E got \in HeapCalls(strCreate.heap) :
           StrMallocResult(SizeAdd(strCreate.size, SizeT(1)), got)
    /\ UNCHANGED pnm

\* The allocator (glibc) hands out chunks of 32, 48, 64, ... bytes: the
\* request and 8 bytes of its own, rounded up, or a free chunk 16 bytes
\* larger, which it hands out whole (spare) because what it would split off
\* is too small for a chunk.  A chunk of MmapThreshold bytes or more that
\* the heap has no room left for is a region of whole pages mapped for it,
\* 16 of its bytes the allocator's own.
MinUsable == 24
MmapThreshold == 131072
PageSize == 4096

ChunkSize(request, spare) ==
    LET r  == SizeAdd(request, SizeT(23))
        nb == IF ~SizeGe(r, SizeT(MinUsable + 8)) THEN SizeT(MinUsable + 8)
              ELSE [r EXCEPT ![4] = @ - (@ % 16)]
    IN  IF spare THEN SizeAdd(nb, SizeT(16)) ELSE nb

\* the bytes of a buffer malloc(request) returned that can be written
\* without touching what lies behind it; spare: the chunk is a free one the
\* allocator did not split; mapped: the heap has no room left for a chunk of
\* MmapThreshold bytes or more
Usable(request, spare, mapped) ==
    LET map == SizeAdd(ChunkSize(request, FALSE), SizeT(8 + (PageSize - 1)))
    IN  IF mapped /\ SizeGe(ChunkSize(request, FALSE), SizeT(MmapThreshold))
        THEN SizeSub([map EXCEPT ![4] = @ - (@ % PageSize)], SizeT(16))
        ELSE SizeSub(ChunkSize(request, spare), SizeT(8))

\* a buffer of malloc(request) has room for n bytes whatever chunk it is
\* ("yes"), in no case ("no"), or when the chunk has spare bytes or is
\* mapped ("maybe")
Room(request, n) ==
    IF SizeGe(Usable(request, FALSE, FALSE), n) THEN "yes"
    ELSE IF \/ SizeGe(Usable(request, TRUE, FALSE), n)
            \/ SizeGe(Usable(request, FALSE, TRUE), n)
    THEN "maybe"
    ELSE "no"

\* vsprintf writes past the end of str: "no", "yes", or "maybe" when the
\* size of the buffer or the number of bytes written is indeterminate, or
\* when it depends on the chunk the allocator picked
Overrun(r, bytes, any) ==
    IF r.st = "any" THEN "maybe"
    ELSE IF r.st = "long"
    THEN (IF ~any /\ Room(bytes, SizeAdd(SizeT(2147483647), SizeT(2))) = "no"
          THEN "yes" ELSE "maybe")
    ELSE IF any THEN (IF r.put < MinUsable THEN "no" ELSE "maybe")
    ELSE IF Room(bytes, SizeAdd(SizeT(r.put), SizeT(1))) = "yes" THEN "no"
    ELSE IF Room(bytes, SizeAdd(SizeT(r.put), SizeT(1))) = "maybe"
    THEN "maybe"
    ELSE "yes"

\* a write past the end of the buffer is undefined: it damages the heap
\* ("corrupt") or faults ("crash")
Fates(overrun) ==
    IF overrun = "no" THEN {"return"}
    ELSE IF overrun = "yes" THEN {"corrupt", "crash"}
    ELSE {"return", "corrupt", "crash"}

\* vsprintf(str, fmt, args); return str;
StrVsprintfResult(r, fate) ==
    IF fate = "crash" THEN strCreate' = [strCreate EXCEPT !.pc = "crash"]
    ELSE strCreate' =
             [strCreate EXCEPT
                  !.pc = "returned", !.written = r.n, !.len = r.len,
                  !.any = @ \cup (IF r.st = "any" THEN {"written", "len"}
                                  ELSE IF r.st = "long" THEN {"len"}
                                  ELSE {}),
                  !.heap = IF fate = "corrupt" THEN "corrupt" ELSE @]

StrVsprintf ==
    /\ strCreate.pc = "alloc"
    /\ \E err \in Strerrors :
           LET r == Vsprintf(strCreate.fmt, Args, err)
           IN  \E fate \in Fates(Overrun(r, strCreate.bytes,
                                         "size" \in strCreate.any)) :
                   StrVsprintfResult(r, fate)
    /\ UNCHANGED pnm

\* the string a SHYSTR_vStrCreate call returned, as the caller holds it
Held ==
    IF strCreate.pc = "null" THEN NoDest
    ELSE Dest(SizeT(strCreate.len), strCreate.bytes, "len" \in strCreate.any)

\* StrAppend(&s, fmt, ...) on the s a StrCreate call returned, up to the call
\* of SHYSTR_vStrCreate; with no fmt it returns true at once.  What a string
\* has behind the end of its buffer is the allocator's to change, and its
\* strlen, read after the call, is indeterminate.
StrAppendStart(dest, call, nofmt) ==
    IF nofmt /\ ~dest.null
    THEN strCreate' = [strCreate EXCEPT !.pc = "appended", !.fn = "append",
                                        !.dest = dest, !.ret = "true",
                                        !.appends = @ + 1]
    ELSE strCreate' = [strCreate EXCEPT
                           !.pc = IF nofmt THEN "crash" ELSE "call",
                           !.fn = "append",
                           !.dest = IF strCreate.heap = "corrupt"
                                    THEN Dest(SizeT(0), dest.bytes, TRUE)
                                    ELSE dest,
                           !.fmt = call.fmt, !.args = call.args,
                           !.size = SizeT(0), !.bytes = SizeT(0),
                           !.written = -1, !.len = 0, !.any = {},
                           !.appends = @ + 1]

StrAppendCall ==
    /\ strCreate.fn = "create" /\ strCreate.pc \in {"returned", "null"}
    /\ strCreate.appends < MaxAppends
    /\ \E call \in Appended, nofmt \in BOOLEAN :
           StrAppendStart(Held, call, nofmt)
    /\ UNCHANGED pnm

\* SHYSTR_vStrAppend once SHYSTR_vStrCreate has returned src: realloc and
\* memcpy, or *dest_p = src when there was no string
StrAppendResult(src, request, any, got) ==
    IF src.null
    THEN strCreate' = [strCreate EXCEPT !.pc = "appended", !.ret = "false"]
    ELSE IF strCreate.dest.null
    THEN strCreate' = [strCreate EXCEPT !.pc = "appended", !.ret = "true",
                                        !.dest = src]
    ELSE IF got \in {"abort", "crash"}
    THEN strCreate' = [strCreate EXCEPT !.pc = got]
    ELSE IF got = "ptr" /\ any
    THEN strCreate' = [strCreate EXCEPT
                           !.pc = "appended", !.ret = "true",
                           !.dest = Dest(SizeT(0), SizeT(0), TRUE)]
    ELSE IF got = "ptr" /\ SizeGrantable(request)
    THEN strCreate' = [strCreate EXCEPT
                           !.pc = "appended", !.ret = "true",
                           !.dest = Dest(SizeAdd(strCreate.dest.len, src.len),
                                         request, FALSE)]
    ELSE strCreate' = [strCreate EXCEPT !.pc = "appended", !.ret = "false"]

\* dest = realloc(dest, dest_len + src_len + 1); the strlen of a string
\* that runs past the end of its buffer is that of what the allocator has
\* since put there
StrAppendJoin ==
    /\ strCreate.fn = "append" /\ strCreate.pc \in {"returned", "null"}
    /\ \E got \in HeapCalls(strCreate.heap) :
           StrAppendResult(Held,
                           SizeAdd(SizeAdd(strCreate.dest.len, Held.len),
                                   SizeT(1)),
                           \/ strCreate.dest.any \/ Held.any
                           \/ strCreate.heap = "corrupt",
                           got)
    /\ UNCHANGED pnm

StrNext ==
    \/ StrSizeCall \/ StrMalloc \/ StrVsprintf
    \/ StrAppendCall \/ StrAppendJoin

StrSpec == StrInit /\ [][StrNext]_vars

-----------------------------------------------------------------------------
(* What the text of the file states, read off the tokens it was built from *)

Last(s) == s[Len(s)]

IsNumeral(t) == t # <<>> /\ \A i \in 1..Len(t) : IsDigit(t[i])

\* a numeral of at most nine digits: its value is below 10^9
Fits(t) == IsNumeral(t) /\ Len(t) <= 9

RECURSIVE TokVal(_)
TokVal(t) ==
    IF t = <<>> THEN 0
    ELSE 10 * TokVal(SubSeq(t, 1, Len(t) - 1)) + (t[Len(t)] - ASCII.zero)

AtLeast1(t) == IsNumeral(t) /\ \E i \in 1..Len(t) : t[i] # ASCII.zero

InRange(t, lo, hi) == Fits(t) /\ TokVal(t) >= lo /\ TokVal(t) <= hi

\* the decimal numeral of n >= 0, without leading zeros
RECURSIVE Numeral(_)
Numeral(n) ==
    IF n < 10 THEN <<ASCII.zero + n>>
    ELSE Numeral(n \div 10) \o <<ASCII.zero + (n % 10)>>

HasMaxval == variant \in {2, 3, 5, 6, 7}
HasDepth == variant = 7

\* every header field of the variant is a numeral
HeaderStated ==
    /\ variant # 0
    /\ IsNumeral(tok.w) /\ IsNumeral(tok.h)
    /\ HasMaxval => IsNumeral(tok.m)
    /\ HasDepth => IsNumeral(tok.d)

\* ... and each is within the bounds of the format
HeaderInBounds ==
    /\ variant # 0
    /\ AtLeast1(tok.w) /\ AtLeast1(tok.h)
    /\ HasMaxval => InRange(tok.m, 1, UINT16_MAX)
    /\ HasDepth => InRange(tok.d, 1, 4)

Returned == pc = "returned"
Succeeded == pc = "returned" /\ ret = "buf"
ReturnedNull == pc = "returned" /\ ret = "NULL"

-----------------------------------------------------------------------------
(* C1 *)

\* C1: when the width and height tokens are decimal integers >= 1 (maxval and
\* depth in range), a successful call reports *w and *h equal to the values
\* the tokens state, and returns a buffer of exactly width*height elements,
\* each written; neither a token nor the product wraps into another value.
C1_BufferAsStated ==
    Succeeded /\ HeaderInBounds =>
        /\ w >= 1 /\ h >= 1
        /\ Numeral(w) = tok.w /\ Numeral(h) = tok.h
        /\ ~MulOverflows(w, h)
        /\ pixSize = w * h /\ Len(pix) = pixSize

-----------------------------------------------------------------------------
(* C2 *)

\* C2: the stream is closed exactly once on every exit path but the open
\* failure, where none exists; once the call has returned a buffer is
\* allocated iff the return value is non-NULL; a failure after the allocation
\* frees the buffer exactly once, and a returned buffer is wholly written.
C2_ClosedOnceBufferIffReturned ==
    /\ closed <= opened /\ opened <= 1
    /\ freed <= allocd /\ allocd <= 1
    /\ Returned =>
          /\ closed = opened
          /\ opened = 1 <=> canOpen
          /\ ret \in {"buf", "NULL"}
          /\ ret = "buf" <=> allocd - freed = 1
          /\ ret = "buf" => Len(pix) = pixSize

\* a decoder failed in its pixel loop, after the allocation
C2_Witness ==
    /\ Returned /\ opened = 1 /\ closed = 1
    /\ allocd = 1 /\ freed = 1 /\ ret = "NULL"

-----------------------------------------------------------------------------
(* C3 *)

\* C3: on every file the call comes to its end; it is never in a loop that
\* no byte of the file can end, reading on for ever at the end of the stream:
\* not in a '#' comment after an integer, not in a '#' comment of PBM-ASCII
\* pixel data, not in the header loop of a PAM file without ENDHDR.
C3_NeverReadsOnForEver == pc # "hang"

-----------------------------------------------------------------------------
(* C4 *)

MagicOk ==
    /\ Len(file) >= 2 /\ file[1] = ASCII.P
    /\ file[2] >= ASCII.one /\ file[2] <= ASCII.seven

\* C4: past the magic number, a decoder has been entered iff the file starts
\* with 'P' and a digit '1'..'7', and it is the decoder of that digit; for
\* any other start the one diagnostic is the invalid-magic one, at most the
\* two magic bytes were read, nothing is allocated and NULL is returned.
C4_MagicDispatch ==
    opened = 1 /\ pc \notin {"start", "opened"} =>
        IF MagicOk
        THEN /\ variant = file[2] - ASCII.zero
             /\ ~InSeq("magic", msgs)
        ELSE /\ variant = 0
             /\ msgs = <<"magic">>
             /\ pos <= 2 /\ allocd = 0 /\ pixPtr = "NULL"
             /\ pc \in {"close", "returned"}
             /\ Returned => ret = "NULL"

\* "P9" before an otherwise valid header was turned down
C4_Witness ==
    /\ Returned /\ ret = "NULL" /\ msgs = <<"magic">>
    /\ Len(file) > 2 /\ file[1] = ASCII.P /\ file[2] = ASCII.nine

-----------------------------------------------------------------------------
(* C5 *)

\* C5: when a raw decoder (PGM-raw, PPM-raw, PAM) fails in its pixel loop on
\* a stream whose end it has reached, the diagnostic is the unexpected-end
\* one, and no out-of-range one is given for the end-of-stream marker.
C5_RawEndIsUnexpectedEof ==
    variant \in {5, 6, 7} /\ freed = 1 /\ eof =>
        /\ Last(msgs) = "eof_pix"
        /\ ~InSeq("range", msgs)

-----------------------------------------------------------------------------
(* C6 *)

\* C6: a PBM-raw call succeeds only if the payload holds a byte for every
\* pixel of the buffer it returns, ceil(pixels / 8) bytes at least.
C6_PbmRawNeedsPayload ==
    Succeeded /\ variant = 4 => Len(tok.data) * 8 >= Len(pix)

-----------------------------------------------------------------------------
(* C7 *)

\* C7: a call that returns NULL has given at least one diagnostic; for a
\* positional header whose first field out of bounds is a width 0, a
\* height 0, or a maxval 0 or above 65535, the diagnostic names that field.
C7_FailureHasDiagnostic ==
    ReturnedNull =>
        /\ msgs # <<>>
        /\ variant \in {2, 3, 5, 6} /\ Fits(tok.w) /\ Fits(tok.h) /\ Fits(tok.m) =>
              IF TokVal(tok.w) = 0 THEN msgs = <<"width">>
              ELSE IF TokVal(tok.h) = 0 THEN msgs = <<"height">>
              ELSE ~InRange(tok.m, 1, UINT16_MAX) => msgs = <<"maxval">>

-----------------------------------------------------------------------------
(* C8 *)

\* C8: while a buffer is allocated, and after a success, width >= 1,
\* height >= 1, 1 <= maxval <= 65535 (all but PBM) and 1 <= depth <= 4 (PAM);
\* a header one of whose fields states a value out of these bounds allocates
\* nothing and fails with the diagnostic of a dimension or of a range.
C8_HeaderBounds ==
    /\ allocd - freed = 1 \/ Succeeded =>
          /\ w >= 1 /\ h >= 1
          /\ HasMaxval => maxval >= 1 /\ maxval <= UINT16_MAX
          /\ HasDepth => depth >= 1 /\ depth <= 4
    /\ HeaderStated /\ ~HeaderInBounds =>
          /\ allocd = 0
          /\ Returned =>
                /\ ret = "NULL" /\ msgs # <<>>
                /\ Last(msgs) \in {"width", "height", "maxval", "depth"}

-----------------------------------------------------------------------------
(* C9 *)

Channels ==
    IF variant \in {2, 5} THEN 1
    ELSE IF variant \in {3, 6} THEN 3 ELSE TokVal(tok.d)

\* the samples the file holds, in stream order; an ASCII sample of more than
\* nine digits counts as one above every maxval
StatedSamples ==
    IF variant \in {2, 3}
    THEN [i \in 1..Len(tok.samples) |->
             IF Fits(tok.samples[i]) THEN TokVal(tok.samples[i])
             ELSE UINT16_MAX + 1]
    ELSE IF TokVal(tok.m) <= UINT8_MAX THEN tok.data
    ELSE [i \in 1..(Len(tok.data) \div 2) |->
             tok.data[2 * i - 1] * (UINT8_MAX + 1) + tok.data[2 * i]]

Channel(v) == (v * 255) \div TokVal(tok.m)

\* pixel i (from 1) as its four bytes, red first
StatedPixel(i) ==
    LET s == StatedSamples
        k == Channels
        o == (i - 1) * k
    IN  IF k = 1 THEN <<Channel(s[o + 1]), Channel(s[o + 1]), Channel(s[o + 1]), 255>>
        ELSE IF k = 2
        THEN <<Channel(s[o + 1]), Channel(s[o + 1]), Channel(s[o + 1]),
               Channel(s[o + 2])>>
        ELSE IF k = 3
        THEN <<Channel(s[o + 1]), Channel(s[o + 2]), Channel(s[o + 3]), 255>>
        ELSE <<Channel(s[o + 1]), Channel(s[o + 2]), Channel(s[o + 3]),
               Channel(s[o + 4])>>

\* a numeral of at most four digits: an image of fewer than 10^8 pixels
Short(t) == IsNumeral(t) /\ Len(t) <= 4

\* C9: for PGM, PPM and PAM with a header in bounds, on success every pixel
\* is the packing of floor(sample*255/maxval) of the samples in stream order
\* (gray replicated, alpha 0xFF unless PAM depth 2 or 4), no sample used is
\* above maxval; and when the file holds all the samples of the image and
\* one of them is above maxval the call fails with the out-of-range
\* diagnostic.
C9_PixelsFromSamples ==
    /\ Returned /\ HasMaxval /\ HeaderInBounds /\ Short(tok.w) /\ Short(tok.h)
    /\ allocd = 1
    =>
    LET s == StatedSamples
        n == TokVal(tok.w) * TokVal(tok.h) * Channels
    IN  /\ ret = "buf" =>
              /\ Len(pix) * Channels = n /\ Len(s) >= n
              /\ \A i \in 1..n : s[i] <= TokVal(tok.m)
              /\ \A i \in 1..Len(pix) : pix[i] = StatedPixel(i)
        /\ (Len(s) >= n /\ \E i \in 1..n : s[i] > TokVal(tok.m)) =>
              ret = "NULL" /\ msgs = <<"range">>

-----------------------------------------------------------------------------
(* C10 *)

\* the '0' and '1' characters of text outside '#' comments, as bits
RECURSIVE PbmBits(_, _)
PbmBits(text, inComment) ==
    IF text = <<>> THEN <<>>
    ELSE IF inComment THEN PbmBits(Tail(text), Head(text) # ASCII.nl)
    ELSE IF Head(text) = ASCII.hash THEN PbmBits(Tail(text), TRUE)
    ELSE IF Head(text) \in {ASCII.zero, ASCII.one}
    THEN <<Head(text) - ASCII.zero>> \o PbmBits(Tail(text), FALSE)
    ELSE PbmBits(Tail(text), FALSE)

\* bit (7 - i mod 8) of payload byte floor(i / 8), pixels counted from 0
PayloadBit(i) == (tok.data[(i \div 8) + 1] \div (2 ^ (7 - (i % 8)))) % 2

BitPixel(b) == IF b = 1 THEN <<0, 0, 0, 255>> ELSE <<255, 255, 255, 255>>

\* C10: on a PBM success every pixel is 0x000000FF (bit 1) or 0xFFFFFFFF
\* (bit 0); raw: pixel i is bit (7 - i mod 8) of payload byte floor(i/8),
\* with no row padding, and exactly ceil(pixels/8) payload bytes are
\* consumed; ASCII: pixel i is the i-th '0' or '1' outside comments.
C10_PbmPixels ==
    Succeeded /\ variant \in {1, 4} =>
        /\ \A i \in 1..Len(pix) : pix[i] \in {BitPixel(0), BitPixel(1)}
        /\ variant = 4 =>
              /\ Len(tok.data) * 8 >= Len(pix)
              /\ \A i \in 1..Len(pix) : pix[i] = BitPixel(PayloadBit(i - 1))
              /\ pos = Len(file) - Len(tok.data) + ((Len(pix) + 7) \div 8)
        /\ variant = 1 =>
              /\ Len(PbmBits(tok.data, FALSE)) >= Len(pix)
              /\ \A i \in 1..Len(pix) :
                    pix[i] = BitPixel(PbmBits(tok.data, FALSE)[i])

-----------------------------------------------------------------------------
(* C11 *)

\* a PAM file written with its four known pairs, each value a numeral of at
\* most nine digits, and ENDHDR
PamWhole ==
    /\ variant = 7 /\ tok.good
    /\ Fits(tok.w) /\ Fits(tok.h) /\ Fits(tok.d) /\ Fits(tok.m)

\* the index of the last byte before the raw data
DataStart == Len(file) - Len(tok.data)

HasSub(f, s) == \E i \in 1..(Len(f) - Len(s) + 1) : SubSeq(f, i, i + Len(s) - 1) = s

\* C11: in a PAM header the four known pairs may come in any order and
\* pairs with another keyword (TUPLTYPE RGB, WIDTHx 5, or x MAXVAL, whose
\* value is itself a keyword) are skipped as two tokens: the loop ends at
\* ENDHDR and nowhere else, the fields are then the values of the known
\* pairs, the stream stands at the byte right after the
\* one terminator of ENDHDR, and the samples are taken from there on.
C11_PamHeaderAsStated ==
    PamWhole =>
        /\ pc # "hang"
        /\ ~InSeq("bad_int", msgs) /\ ~InSeq("eof_int", msgs)
        /\ pc = "header" => pos < DataStart /\ msgs = <<>>
        /\ pc = "pamcheck" =>
              /\ w = TokVal(tok.w) /\ h = TokVal(tok.h)
              /\ depth = TokVal(tok.d) /\ maxval = TokVal(tok.m)
              /\ pos = DataStart /\ msgs = <<>>
        /\ pc = "pixels" => pos >= DataStart
        /\ Succeeded =>
              /\ Len(tok.data) >= Len(pix) * Channels
              /\ \A i \in 1..Len(pix) : pix[i] = StatedPixel(i)

\* a header with WIDTHx 5 and TUPLTYPE RGB among its pairs was decoded, the
\* first sample being a newline byte
C11_Witness ==
    /\ Succeeded /\ PamWhole
    /\ HasSub(file, PamKey.X) /\ HasSub(file, PamKey.T)
    /\ tok.data[1] = ASCII.nl
    /\ pix = <<<<ASCII.nl, ASCII.nl, ASCII.nl, 255>>>>

-----------------------------------------------------------------------------
(* StrCreate: the computed size against the characters written *)

\* C12: for a format made of literal text, %%, %c, %d and %u with an optional
\* width and precision, and %s with or without a precision, the size
\* SHYSTR_StrSize returns is at least the number of characters vsprintf
\* writes, so the output and its NUL stay inside the buffer of size + 1 bytes.
C12_SizeCoversOutput ==
    strCreate.fn = "create" /\ strCreate.plain /\ strCreate.pc = "returned" =>
        /\ strCreate.written >= 0
        /\ SizeGe(strCreate.size, SizeT(strCreate.written))
        /\ SizeGe(strCreate.bytes,
                  SizeAdd(SizeT(strCreate.written), SizeT(1)))

-----------------------------------------------------------------------------
(* PAM: where an invalid header value stops the decode *)

PamKeys == {"W", "H", "D", "M"}

PamTok(k) ==
    CASE k = "W" -> tok.w [] k = "H" -> tok.h [] k = "D" -> tok.d
      [] OTHER -> tok.m

\* the pair of k as it stands in the file, on a line of its own
PamPair(k) ==
    <<ASCII.nl>> \o PamKey[k] \o <<ASCII.sp>> \o PamTok(k) \o <<ASCII.nl>>

PamStated(k) == PamTok(k) # <<>> /\ HasSub(file, PamPair(k))

\* the number of bytes up to the value of k and its one terminator
FieldEnd(k) ==
    CHOOSE e \in Len(PamPair(k))..Len(file) :
        SubSeq(file, e - Len(PamPair(k)) + 1, e) = PamPair(k)

\* a malformed integer, or a value outside the range of its field; a numeral
\* of more than nine digits is not judged here
PamInvalid(k) ==
    \/ ~IsNumeral(PamTok(k))
    \/ /\ Fits(PamTok(k))
       /\ IF k = "D" THEN ~InRange(PamTok(k), 1, 4)
          ELSE IF k = "M" THEN ~InRange(PamTok(k), 1, UINT16_MAX)
          ELSE TokVal(PamTok(k)) < 1

PamError(k) ==
    IF ~IsNumeral(PamTok(k)) THEN "bad_int"
    ELSE CASE k = "W" -> "width" [] k = "H" -> "height" [] k = "D" -> "depth"
           [] OTHER -> "maxval"

\* k is the invalid field that comes first in the stream
FirstInvalid(k) ==
    /\ PamStated(k) /\ PamInvalid(k)
    /\ \A j \in PamKeys \ {k} :
           PamStated(j) /\ PamInvalid(j) => FieldEnd(k) < FieldEnd(j)

\* C13: in a PAM header the decode fails as soon as an invalid field value
\* has been read: the stream never goes past the first invalid value (DEPTH
\* outside 1..4, MAXVAL outside 1..65535, WIDTH or HEIGHT below 1, or a
\* malformed integer), the call returns NULL, and the one error reported is
\* that of this field.
C13_FailsAtFirstInvalidField ==
    variant = 7 =>
        \A k \in PamKeys :
            FirstInvalid(k) =>
                /\ pos <= FieldEnd(k)
                /\ pc # "hang"
                /\ Returned => ret = "NULL" /\ msgs = <<PamError(k)>>

-----------------------------------------------------------------------------
(* The caller's *w and *h when PnmLoad returns *)

\* C14: when PnmLoad returns NULL both *w and *h are negative, and when it
\* returns a buffer both are at least 1: no failure path (open failure,
\* invalid magic, header failure, PAM WIDTH 0 or HEIGHT 0, pixel data
\* failure) leaves the two half-set.
C14_DimensionsSignalOutcome ==
    Returned =>
        IF ret = "buf" THEN w >= 1 /\ h >= 1 ELSE w < 0 /\ h < 0

-----------------------------------------------------------------------------
(* PAM: the outcome against the fields the header states *)

\* C15: the outcome of a PAM decode depends on the bytes of the file alone:
\* whatever PamLoad's locals depth and maxval and the caller's *w and *h held
\* before, a header that reaches ENDHDR without stating DEPTH, MAXVAL, WIDTH
\* or HEIGHT never yields a buffer.
C15_PamSuccessNeedsAllFields ==
    Succeeded /\ variant = 7 => \A k \in PamKeys : PamStated(k)

====
